---- MODULE Spec2Model ----
\* Decor pricing / ranking pipeline of the event-planning desktop application:
\* UI/graphs/decor_price_model.py (DecorPriceModel).
\*
\* Python values are held as tagged records [t, v, s]:
\*   t = "absent"  the key is missing from the dict
\*   t = "none"    None
\*   t = "bool"    v = 1 (True) or 0 (False)
\*   t = "int"     an int; v is the number in HALF units (v = 2 * n)
\*   t = "float"   a float; v is the number in half units
\*   t = "str"     a string; s is its sequence of code points
\*   t = "dict"    a JSON object that is no decor record (v = number of keys)
\* Numbers are held in halves so that (PriceSmall + PriceLarge) / 2.0 of two
\* whole prices is exact.
EXTENDS Integers, Sequences, FiniteSets, TLC

\* ---------------------------------------------------------------- bounds
\* whole prices a payload may carry: 0 .. MaxPrice
MaxPrice == 2
\* successive calls of _ensure_midprice on one dict
MaxCalls == 2

\* ---------------------------------------------------------------- values
Absent == [t |-> "absent", v |-> 0, s |-> <<>>]
None == [t |-> "none", v |-> 0, s |-> <<>>]
PyBool(b) == [t |-> "bool", v |-> (IF b THEN 1 ELSE 0), s |-> <<>>]
PyInt(n) == [t |-> "int", v |-> 2 * n, s |-> <<>>]
PyFloat(n) == [t |-> "float", v |-> 2 * n, s |-> <<>>]
FloatHalves(h) == [t |-> "float", v |-> h, s |-> <<>>]
PyStr(cs) == [t |-> "str", v |-> 0, s |-> cs]

IsNone(x) == x.t = "none"
IsNumber(x) == x.t \in {"int", "float"}

\* code points used by the strings of the model
ChZero == 48
ChNine == 57
ChA == 65
ChB == 66
ChX == 120

\* dict.get(key): a missing key reads as None
Get(it, k) == IF it[k].t = "absent" THEN None ELSE it[k]

\* dict.get(key, default)
GetDefault(it, k, d) == IF it[k].t = "absent" THEN d ELSE it[k]

\* Python truth value of an object
Truthy(x) ==
    CASE x.t \in {"absent", "none"} -> FALSE
      [] x.t \in {"bool", "int", "float", "dict"} -> x.v # 0
      [] x.t = "str" -> Len(x.s) > 0

\* Python `a or b`
PyOr(a, b) == IF Truthy(a) THEN a ELSE b

\* value of a string of decimal digits, in whole units
RECURSIVE DigitsValue(_)
DigitsValue(cs) ==
    IF Len(cs) = 0 THEN 0
    ELSE 10 * DigitsValue(SubSeq(cs, 1, Len(cs) - 1)) + (cs[Len(cs)] - ChZero)

IsDigits(cs) == Len(cs) > 0 /\ \A i \in 1..Len(cs) : cs[i] >= ChZero /\ cs[i] <= ChNine

\* float(x): [ok |-> the call returned, val |-> the float]. float() of None, of a
\* dict or of a string that is no number raises (TypeError / ValueError).
FloatOf(x) ==
    CASE x.t \in {"int", "float", "bool"} ->
            [ok |-> TRUE, val |-> FloatHalves(IF x.t = "bool" THEN 2 * x.v ELSE x.v)]
      [] x.t = "str" ->
            IF IsDigits(x.s) THEN [ok |-> TRUE, val |-> PyFloat(DigitsValue(x.s))]
            ELSE [ok |-> FALSE, val |-> None]
      [] OTHER -> [ok |-> FALSE, val |-> None]

\* the exception float(x) raises when it raises
FloatError(x) == IF x.t = "str" THEN "ValueError" ELSE "TypeError"

\* float(x) as [ok, val, error]
FloatTry(x) ==
    [ok |-> FloatOf(x).ok, val |-> FloatOf(x).val,
     error |-> IF FloatOf(x).ok THEN "" ELSE FloatError(x)]

\* The marker an operator yields when the Python code it models raised.
Raised == [t |-> "raised", v |-> 0, s |-> <<>>]
IsRaised(x) == x.t = "raised"

\* _to_float without its try/except: a failed float() escapes
_to_float_unguarded(x) ==
    IF IsNone(x) THEN None
    ELSE IF FloatOf(x).ok THEN FloatOf(x).val ELSE Raised

\* _to_float(x): None for None, float(x) when it converts, None when float() raises
_to_float(x) ==
    IF IsNone(x) THEN None
    ELSE IF FloatOf(x).ok THEN FloatOf(x).val ELSE None

\* ------------------------------------------------------- _ensure_midprice
\* the mutants of the precedence chain
MidRule_avg_first(p_s, p_m, p_l, mp, mn) ==
    IF ~IsNone(p_s) /\ ~IsNone(p_l) THEN FloatHalves((p_s.v + p_l.v) \div 2)
    ELSE IF ~IsNone(p_m) THEN p_m
    ELSE IF ~IsNone(p_s) THEN p_s
    ELSE IF ~IsNone(p_l) THEN p_l
    ELSE IF ~IsNone(mp) THEN mp
    ELSE IF ~IsNone(mn) THEN mn ELSE PyFloat(0)

MidRule_sum_not_halved(p_s, p_m, p_l, mp, mn) ==
    IF ~IsNone(p_m) THEN p_m
    ELSE IF ~IsNone(p_s) /\ ~IsNone(p_l) THEN FloatHalves(p_s.v + p_l.v)
    ELSE IF ~IsNone(p_s) THEN p_s
    ELSE IF ~IsNone(p_l) THEN p_l
    ELSE IF ~IsNone(mp) THEN mp
    ELSE IF ~IsNone(mn) THEN mn ELSE PyFloat(0)

MidRule_stored_before_single(p_s, p_m, p_l, mp, mn) ==
    IF ~IsNone(p_m) THEN p_m
    ELSE IF ~IsNone(p_s) /\ ~IsNone(p_l) THEN FloatHalves((p_s.v + p_l.v) \div 2)
    ELSE IF ~IsNone(mp) THEN mp
    ELSE IF ~IsNone(p_s) THEN p_s
    ELSE IF ~IsNone(p_l) THEN p_l
    ELSE IF ~IsNone(mn) THEN mn ELSE PyFloat(0)

MidRule_min_before_mid(p_s, p_m, p_l, mp, mn) ==
    IF ~IsNone(p_m) THEN p_m
    ELSE IF ~IsNone(p_s) /\ ~IsNone(p_l) THEN FloatHalves((p_s.v + p_l.v) \div 2)
    ELSE IF ~IsNone(p_s) THEN p_s
    ELSE IF ~IsNone(p_l) THEN p_l
    ELSE IF ~IsNone(mn) THEN mn
    ELSE IF ~IsNone(mp) THEN mp ELSE PyFloat(0)

\* lines 34-45: PriceMedium > avg(S/L) > S or L > MidPrice > MinPrice > 0.
\* The arguments are the five _to_float results (a float or None).
MidRule(p_s, p_m, p_l, mp, mn) ==
    IF ~IsNone(p_m) THEN p_m
    ELSE IF ~IsNone(p_s) /\ ~IsNone(p_l) THEN FloatHalves((p_s.v + p_l.v) \div 2)
    ELSE IF ~IsNone(p_s) THEN p_s
    ELSE IF ~IsNone(p_l) THEN p_l
    ELSE IF ~IsNone(mp) THEN mp
    ELSE IF ~IsNone(mn) THEN mn ELSE PyFloat(0)

\* line 47 without the store: the value is computed and returned only
StoreMid_not_stored(it, mid) == [it |-> it, ret |-> FloatOf(PyOr(mid, PyFloat(0))).val]

\* line 47-48: it["MidPrice"] = float(mid or 0.0); return it["MidPrice"]
StoreMid(it, mid) ==
    LET val == FloatOf(PyOr(mid, PyFloat(0))).val
    IN [it |-> [it EXCEPT !.MidPrice = val], ret |-> val]

\* _ensure_midprice(it): [it |-> the dict afterwards, ret |-> the value returned,
\* raised |-> whether the call raised instead of returning]
_ensure_midprice(it) ==
    LET p_s == _to_float(Get(it, "PriceSmall"))
        p_m == _to_float(Get(it, "PriceMedium"))
        p_l == _to_float(Get(it, "PriceLarge"))
        mp == _to_float(Get(it, "MidPrice"))
        mn == _to_float(Get(it, "MinPrice"))
        early == IsRaised(p_s) \/ IsRaised(p_m) \/ IsRaised(p_l)
        inElse == IsNone(p_s) /\ IsNone(p_m) /\ IsNone(p_l)
        late == inElse /\ (IsRaised(mp) \/ IsRaised(mn))
    IN IF early \/ late
       THEN [it |-> it, ret |-> None, raised |-> TRUE]
       ELSE LET r == StoreMid(it, MidRule(p_s, p_m, p_l, mp, mn))
            IN [it |-> r.it, ret |-> r.ret, raised |-> FALSE]
\* ------------------------------------------------------------ dict shape
\* A decor record as the server's JSON carries it; a key the payload lacks
\* is Absent.
Keys ==
    {"DecorId", "decorId", "id", "DecorName", "Name", "Available", "Category",
     "Region", "PhotoUrl", "Theme",
     "PriceSmall", "PriceMedium", "PriceLarge", "MinPrice", "MidPrice"}

EmptyDict == [k \in Keys |-> Absent]

\* what a price field of a payload may hold: missing, null, a whole int,
\* a float, a numeric string, a string that is no number
PriceVals ==
    {Absent, None, PyFloat(MaxPrice), PyStr(<<ChZero + 1>>), PyStr(<<ChX>>)}
        \cup {PyInt(n) : n \in 0..MaxPrice}

\* --------------------------------------------------------- int() and str()
\* int(x): [ok, val]. A float is truncated; a string must be decimal digits.
IntOf(x) ==
    CASE x.t = "int" -> [ok |-> TRUE, val |-> x]
      [] x.t = "bool" -> [ok |-> TRUE, val |-> PyInt(x.v)]
      [] x.t = "float" -> [ok |-> TRUE, val |-> PyInt(x.v \div 2)]
      [] x.t = "str" ->
            IF IsDigits(x.s) THEN [ok |-> TRUE, val |-> PyInt(DigitsValue(x.s))]
            ELSE [ok |-> FALSE, val |-> None]
      [] OTHER -> [ok |-> FALSE, val |-> None]

\* the decimal digits of a natural number
RECURSIVE DigitsOf(_)
DigitsOf(n) ==
    IF n < 10 THEN <<ChZero + n>>
    ELSE Append(DigitsOf(n \div 10), ChZero + (n % 10))

\* str(x) of a string, of None or of a non-negative number
StrOf(x) ==
    CASE x.t = "str" -> x
      [] x.t = "none" -> PyStr(<<78, 111, 110, 101>>)
      [] x.t = "int" -> PyStr(DigitsOf(x.v \div 2))
      [] x.t = "float" ->
            PyStr(DigitsOf(x.v \div 2) \o <<46, (IF x.v % 2 = 0 THEN ChZero ELSE ChZero + 5)>>)

\* Python's < on str: code point by code point, a proper prefix is smaller
RECURSIVE StrLess(_, _)
StrLess(a, b) ==
    IF Len(b) = 0 THEN FALSE
    ELSE IF Len(a) = 0 THEN TRUE
    ELSE IF a[1] # b[1] THEN a[1] < b[1]
    ELSE StrLess(Tail(a), Tail(b))

\* ------------------------------------------------------- _normalize_item
\* lines 65-70: the id under any of its three keys, int() of it when it converts
NormalizeId(it) ==
    LET decor_id == PyOr(Get(it, "DecorId"), PyOr(Get(it, "decorId"), Get(it, "id")))
    IN IF ~IsNone(decor_id) /\ IntOf(decor_id).ok
       THEN [it EXCEPT !.DecorId = IntOf(decor_id).val]
       ELSE it

\* line 73 without bool(): the value as the payload had it
NormalizeAvailable_not_coerced(it) == GetDefault(it, "Available", PyBool(TRUE))

\* line 73: bool(it.get("Available", True))
NormalizeAvailable(it) == PyBool(Truthy(GetDefault(it, "Available", PyBool(TRUE))))

\* the five price fields
PriceKeys == {"PriceSmall", "PriceMedium", "PriceLarge", "MinPrice", "MidPrice"}

\* lines 76-80 with one try around all five conversions: one price that does
\* not convert leaves every price None
NormalizePrices_all_or_nothing(it) ==
    IF \E k \in PriceKeys : ~IsNone(Get(it, k)) /\ ~FloatOf(Get(it, k)).ok
    THEN [k \in DOMAIN it |-> IF k \in PriceKeys THEN None ELSE it[k]]
    ELSE [k \in DOMAIN it |-> IF k \in PriceKeys THEN _to_float(Get(it, k)) ELSE it[k]]

\* lines 76-80: each price field becomes a float or None
NormalizePrices(it) ==
    [it EXCEPT !.PriceSmall = _to_float(Get(it, "PriceSmall")),
               !.PriceMedium = _to_float(Get(it, "PriceMedium")),
               !.PriceLarge = _to_float(Get(it, "PriceLarge")),
               !.MinPrice = _to_float(Get(it, "MinPrice")),
               !.MidPrice = _to_float(Get(it, "MidPrice"))]

\* _normalize_item without line 83: MidPrice stays what line 80 made of it
_normalize_item_mid_unresolved(it) ==
    LET a == NormalizeId(it)
        name == PyOr(Get(a, "DecorName"), PyOr(Get(a, "Name"), PyStr(<<>>)))
        b == [a EXCEPT !.DecorName = StrOf(name), !.Available = NormalizeAvailable(a)]
    IN NormalizePrices(b)

\* _normalize_item(it): the dict after the call (the call writes into it)
_normalize_item(it) ==
    LET a == NormalizeId(it)
        name == PyOr(Get(a, "DecorName"), PyOr(Get(a, "Name"), PyStr(<<>>)))
        b == [a EXCEPT !.DecorName = StrOf(name), !.Available = NormalizeAvailable(a)]
    IN _ensure_midprice(NormalizePrices(b)).it

\* _normalize_item(it) as a call: the dict handed in as the call leaves it, the
\* dict returned (line 84 returns the argument itself), and whether an
\* exception escaped: int() is guarded by lines 67-70, float() by _to_float
NormalizeCall(it) ==
    LET a == NormalizeId(it)
        name == PyOr(Get(a, "DecorName"), PyOr(Get(a, "Name"), PyStr(<<>>)))
        b == [a EXCEPT !.DecorName = StrOf(name), !.Available = NormalizeAvailable(a)]
        priced == NormalizePrices(b)
        raised == (\E k \in PriceKeys : IsRaised(priced[k])) \/ _ensure_midprice(priced).raised
    IN [arg |-> IF raised THEN b ELSE _normalize_item(it),
        ret |-> IF raised THEN EmptyDict ELSE _normalize_item(it),
        raised |-> raised]

\* ------------------------------------------------------ _postprocess_list
\* the sort key of line 94: (float(MidPrice or 0), str(DecorName or ""))
SortKey(d) ==
    [m |-> FloatOf(PyOr(Get(d, "MidPrice"), PyInt(0))),
     n |-> StrOf(PyOr(Get(d, "DecorName"), PyStr(<<>>)))]

\* a sort key that forgets the name
KeyLess_price_only(a, b) == a.m.val.v < b.m.val.v

\* a sort key with the name first
KeyLess_name_first(a, b) ==
    \/ StrLess(a.n.s, b.n.s)
    \/ a.n.s = b.n.s /\ a.m.val.v < b.m.val.v

\* Python's < on the key tuples
KeyLess(a, b) ==
    \/ a.m.val.v < b.m.val.v
    \/ a.m.val.v = b.m.val.v /\ StrLess(a.n.s, b.n.s)

\* list.sort(key=...): stable, so an element goes behind the elements that are
\* not greater than it
RECURSIVE InsertByKey(_, _)
InsertByKey(sorted, d) ==
    IF Len(sorted) = 0 THEN <<d>>
    ELSE IF KeyLess(SortKey(d), SortKey(sorted[Len(sorted)]))
         THEN Append(InsertByKey(SubSeq(sorted, 1, Len(sorted) - 1), d), sorted[Len(sorted)])
         ELSE Append(sorted, d)

RECURSIVE SortByKey(_)
SortByKey(ds) ==
    IF Len(ds) = 0 THEN <<>>
    ELSE InsertByKey(SortByKey(SubSeq(ds, 1, Len(ds) - 1)), ds[Len(ds)])

\* the list without the filter of line 92-93
FilterAvailable_keep_all(ds, only_available) == ds

\* lines 92-93: with only_available, the dicts whose Available is true
FilterAvailable(ds, only_available) ==
    IF only_available
    THEN SelectSeq(ds, LAMBDA d : Truthy(GetDefault(d, "Available", PyBool(TRUE))))
    ELSE ds

\* line 91 without dict(it): _normalize_item writes into the records of the
\* input list
InputAfterPostprocess_in_place(items) ==
    [i \in 1..Len(items) |-> NormalizeCall(items[i]).arg]

\* The input list after _postprocess_list: line 91 hands _normalize_item a new
\* dict(it) for every record and collects the results in a new list, so the
\* list and its records are what they were.
InputAfterPostprocess(items) ==
    [i \in 1..Len(items) |->
        LET copy == [k \in DOMAIN items[i] |-> items[i][k]]
            written == NormalizeCall(copy).arg  \* the copy after the call
        IN items[i]]

\* _postprocess_list(items, only_available) of a list of dicts
_postprocess_list(items, only_available) ==
    LET normed == [i \in 1..Len(items) |-> _normalize_item(items[i])]
    IN SortByKey(FilterAvailable(normed, only_available))

\* ------------------------------------------------------ server responses
\* What server_access.request(path) does: it raises (requests.HTTPError, a
\* connection error) or returns the JSON value of the reply.
\*   kind = "raise"    the call raised
\*   kind = "null"     None
\*   kind = "obj"      a JSON object: obj (EmptyDict is the empty object)
\*   kind = "list"     a list of JSON objects: items
\*   kind = "other"    a JSON value that is neither object, list nor null
\*                     (a non-zero number)
\*   kind = "unbound"  a local variable no statement has assigned yet
RaiseResp == [kind |-> "raise", obj |-> EmptyDict, items |-> <<>>]
NullResp == [kind |-> "null", obj |-> EmptyDict, items |-> <<>>]
OtherResp == [kind |-> "other", obj |-> EmptyDict, items |-> <<>>]
Unbound == [kind |-> "unbound", obj |-> EmptyDict, items |-> <<>>]
ObjResp(d) == [kind |-> "obj", obj |-> d, items |-> <<>>]
ListResp(ds) == [kind |-> "list", obj |-> EmptyDict, items |-> ds]

\* a prices request that names no category
PricesReq_uncategorized(cat) ==
    [path |-> "prices", id |-> 0, category |-> <<>>, available |-> TRUE]

\* the requests a load issues, in order
GetReq(n) == [path |-> "get", id |-> n, category |-> <<>>, available |-> FALSE]
\* f"/DB/decors/prices?category={category}&available=true&..."
PricesReq(cat) == [path |-> "prices", id |-> 0, category |-> StrOf(cat).s, available |-> TRUE]
\* f"/DB/decors/list?category={category}&available=true&..."
ListReq(cat) == [path |-> "list", id |-> 0, category |-> StrOf(cat).s, available |-> TRUE]

\* ------------------------------------------------- the catalogue server
\* ServerAPI.py over dbo.DecorOption. A server of this kind is
\*   [catalog |-> the table: decor id -> row, or NoRow where there is none,
\*    order   |-> the order in which the database yields rows that tie in
\*                an ORDER BY (a sequence of the ids),
\*    down    |-> the endpoints that fail at the moment,
\*    priced  |-> what /DB/decors/prices yields from the table, by category,
\*    listed  |-> what /DB/decors/list yields from the table]
\* A stub server, [get, prices, list, down], replies the same whatever the
\* query is.
IsCatalog(srv) == "catalog" \in DOMAIN srv
NoRow == EmptyDict

\* the rows of the table, in the order the database yields them
TableRows(srv) ==
    LET ids == SelectSeq(srv.order, LAMBDA i : srv.catalog[i] # NoRow)
    IN [k \in 1..Len(ids) |-> srv.catalog[ids[k]]]

\* read_api.get_decor_prices: COALESCE(PriceMedium, (PriceSmall + PriceLarge) / 2
\* when both are there, else COALESCE(PriceSmall, PriceLarge)); NULL if no price
SqlMidPrice(row) ==
    IF ~IsNone(row.PriceMedium) THEN row.PriceMedium
    ELSE IF ~IsNone(row.PriceSmall) /\ ~IsNone(row.PriceLarge)
         THEN FloatHalves((row.PriceSmall.v + row.PriceLarge.v) \div 2)
    ELSE IF ~IsNone(row.PriceSmall) THEN row.PriceSmall ELSE row.PriceLarge

\* read_api.get_decor_cards: MIN over the prices that are not NULL
SqlMinPrice(row) ==
    LET ps == {row[k] : k \in {"PriceSmall", "PriceMedium", "PriceLarge"}} \ {None}
    IN IF ps = {} THEN None ELSE CHOOSE p \in ps : \A q \in ps : p.v <= q.v

\* ORDER BY col ASC of SQL Server: NULL first, rows that tie in table order
SqlKey(row, col) ==
    IF col = "MidPrice"
    THEN <<(IF IsNone(row.MidPrice) THEN -1 ELSE row.MidPrice.v), <<>>>>
    ELSE <<0, row.DecorName.s>>
SqlKeyLess(a, b) == a[1] < b[1] \/ (a[1] = b[1] /\ StrLess(a[2], b[2]))

RECURSIVE SqlInsert(_, _, _)
SqlInsert(sorted, row, col) ==
    IF Len(sorted) = 0 THEN <<row>>
    ELSE IF SqlKeyLess(SqlKey(row, col), SqlKey(sorted[Len(sorted)], col))
         THEN Append(SqlInsert(SubSeq(sorted, 1, Len(sorted) - 1), row, col),
                     sorted[Len(sorted)])
         ELSE Append(sorted, row)

RECURSIVE SqlOrderBy(_, _)
SqlOrderBy(rs, col) ==
    IF Len(rs) = 0 THEN <<>>
    ELSE SqlInsert(SqlOrderBy(SubSeq(rs, 1, Len(rs) - 1), col), rs[Len(rs)], col)

\* the WHERE clause of get_decor_prices: the category filter is skipped for
\* an empty category, "All" and "All categories" (no such text is asked for
\* here), available=true keeps the rows with Available = 1
SqlWhere(rs, category, available) ==
    SelectSeq(rs, LAMBDA r :
        /\ (category # <<>> => r.Category.s = category)
        /\ (available => r.Available = PyBool(TRUE)))

\* GET /DB/decors/prices?category=..&available=true&order_by=MidPrice
\* (ServerAPI.list_decor_prices -> read_api.get_decor_prices)
CatalogPrices(srv, category) ==
    LET rs == SqlWhere(TableRows(srv), category, TRUE)
        out == [k \in 1..Len(rs) |-> [rs[k] EXCEPT !.MidPrice = SqlMidPrice(rs[k])]]
    IN ListResp(SqlOrderBy(out, "MidPrice"))

\* GET /DB/decors/list?category=..: the route (ServerAPI.py line 43, again at
\* line 202) declares no parameter and calls read_api.get_decor_cards(), so
\* the query string is not read: every row, without its three prices, with
\* MinPrice, by DecorName
CatalogList(srv, category) ==
    LET rs == TableRows(srv)
        out == [k \in 1..Len(rs) |->
                  [rs[k] EXCEPT !.PriceSmall = Absent, !.PriceMedium = Absent,
                                !.PriceLarge = Absent, !.MinPrice = SqlMinPrice(rs[k])]]
    IN ListResp(SqlOrderBy(out, "DecorName"))

\* GET /DB/decors/get/{n} (read_api.get_decor_by_id): the row, or null
CatalogGet(srv, n) ==
    IF n \in DOMAIN srv.catalog /\ srv.catalog[n] # NoRow
    THEN ObjResp(srv.catalog[n]) ELSE NullResp

\* the reply to /DB/decors/get/{n}
GetReply(srv, n) ==
    IF IsCatalog(srv) THEN CatalogGet(srv, n)
    ELSE IF n \in DOMAIN srv.get THEN srv.get[n] ELSE NullResp

\* the reply to /DB/decors/prices?category=..&available=true&...
PricesReply(srv, category) ==
    IF IsCatalog(srv)
    THEN IF "prices" \in srv.down THEN RaiseResp
         ELSE IF category \in DOMAIN srv.priced THEN srv.priced[category]
         ELSE ListResp(<<>>)
    ELSE srv.prices

\* the reply to /DB/decors/list?category=..&available=true&...
ListReply(srv, category) ==
    IF IsCatalog(srv)
    THEN IF "list" \in srv.down THEN RaiseResp ELSE srv.listed
    ELSE srv.list

\* what a load hands back to the action: the object's fields afterwards, whether
\* it returned or raised, the exception, the requests issued
Outcome(st, out, err, reqs) ==
    [st |-> st, outcome |-> out, error |-> err, requests |-> reqs]

\* ------------------------------------------------------------ _get_focus
\* _get_focus without `or not row`: an empty object passes as the focus record
_get_focus_empty_accepted(srv, decor_id) ==
    LET row == GetReply(srv, decor_id)
    IN IF row.kind = "raise" THEN [ok |-> FALSE, error |-> "HTTPError", row |-> EmptyDict]
       ELSE IF row.kind # "obj"
            THEN [ok |-> FALSE, error |-> "ValueError", row |-> EmptyDict]
            ELSE [ok |-> TRUE, error |-> "", row |-> row.obj]

\* _get_focus(decor_id): [ok, error, row]
_get_focus(srv, decor_id) ==
    LET row == GetReply(srv, decor_id)
    IN IF row.kind = "raise" THEN [ok |-> FALSE, error |-> "HTTPError", row |-> EmptyDict]
       ELSE IF row.kind # "obj" \/ row.obj = EmptyDict
            THEN [ok |-> FALSE, error |-> "ValueError", row |-> EmptyDict]
            ELSE [ok |-> TRUE, error |-> "", row |-> row.obj]

\* ------------------------------------------------- _try_prices_endpoint
\* _try_prices_endpoint(category): the list, or NullResp for None
_try_prices_endpoint(srv, category) ==
    LET data == PricesReply(srv, StrOf(category).s)
    IN IF data.kind = "list" /\ Len(data.items) > 0 THEN data ELSE NullResp

\* ----------------------------- _fallback_fetch_and_enrich (UI/graphs)
\* the loop of lines 131-137 over the rows still to visit; acc carries the
\* local `full`, the requests issued and the exception that ended the loop
RECURSIVE FallbackLoopGraphs(_, _, _)
FallbackLoopGraphs(srv, rows, acc) ==
    IF Len(rows) = 0 \/ acc.error # "" THEN acc
    ELSE LET row == rows[1]
             did == PyOr(Get(row, "DecorId"), PyOr(Get(row, "decorId"), Get(row, "id")))
         IN IF IsNone(did) THEN FallbackLoopGraphs(srv, Tail(rows), acc)
            ELSE IF ~IntOf(did).ok THEN [acc EXCEPT !.error = "ValueError"]
            ELSE LET n == IntOf(did).val.v \div 2
                     reply == GetReply(srv, n)
                     reqs == Append(acc.requests, GetReq(n))
                 IN IF reply.kind = "raise"
                    THEN [acc EXCEPT !.error = "HTTPError", !.requests = reqs]
                    ELSE FallbackLoopGraphs(srv, Tail(rows),
                            [acc EXCEPT !.full = reply, !.requests = reqs])

\* line 138: return full
FallbackReturnGraphs(acc) ==
    IF acc.error # "" THEN acc
    ELSE IF acc.full.kind = "unbound" THEN [acc EXCEPT !.error = "UnboundLocalError"]
    ELSE acc

\* _fallback_fetch_and_enrich without lines 127-128: a reply that is no list is
\* taken for an empty one
_fallback_fetch_and_enrich_graphs_lenient(srv, cat) ==
    LET start == [full |-> Unbound, requests |-> <<ListReq(cat)>>, error |-> ""]
        base_list == ListReply(srv, StrOf(cat).s)
    IN IF base_list.kind = "raise" THEN [start EXCEPT !.error = "HTTPError"]
       ELSE IF base_list.kind # "list" THEN FallbackReturnGraphs(start)
       ELSE FallbackReturnGraphs(FallbackLoopGraphs(srv, base_list.items, start))

\* _fallback_fetch_and_enrich(category): [full, requests, error]
_fallback_fetch_and_enrich_graphs(srv, cat) ==
    LET start == [full |-> Unbound, requests |-> <<ListReq(cat)>>, error |-> ""]
        base_list == ListReply(srv, StrOf(cat).s)
    IN IF base_list.kind = "raise" THEN [start EXCEPT !.error = "HTTPError"]
       ELSE IF base_list.kind # "list" THEN [start EXCEPT !.error = "TypeError"]
       ELSE FallbackReturnGraphs(FallbackLoopGraphs(srv, base_list.items, start))

\* _postprocess_list(data, only_available) of whatever load hands it:
\* `items or []` is [] for None and for {}; a non-empty dict iterates over its
\* keys and dict(<a key>) raises ValueError; a number is not iterable (TypeError)
PostprocessData(data, only_available) ==
    CASE data.kind = "list" ->
            [ok |-> TRUE, error |-> "", rows |-> _postprocess_list(data.items, only_available)]
      [] data.kind = "null" -> [ok |-> TRUE, error |-> "", rows |-> <<>>]
      [] data.kind = "obj" ->
            IF data.obj = EmptyDict THEN [ok |-> TRUE, error |-> "", rows |-> <<>>]
            ELSE [ok |-> FALSE, error |-> "ValueError", rows |-> <<>>]
      [] data.kind = "other" -> [ok |-> FALSE, error |-> "TypeError", rows |-> <<>>]

\* --------------------------------------------------- load (UI/graphs)
\* load(decor_id, only_available) on an object whose fields are st
load_graphs(st, srv, decor_id, only_available) ==
    LET focus == _get_focus(srv, decor_id)
        r1 == <<GetReq(decor_id)>>
    IN IF ~focus.ok THEN Outcome(st, "raised", focus.error, r1)
       ELSE
       LET fi == _normalize_item(focus.row)
           st1 == [st EXCEPT !.focus_item = ObjResp(fi)]
           fid == IntOf(Get(fi, "DecorId"))
       IN IF ~fid.ok
          THEN Outcome(st1, "raised", FloatError(Get(fi, "DecorId")), r1)
          ELSE
          LET cat == Get(fi, "Category")
              st2 == [st1 EXCEPT !.focus_id = fid.val, !.category = cat]
              r2 == Append(r1, PricesReq(cat))
              priced == _try_prices_endpoint(srv, cat)
              fb == _fallback_fetch_and_enrich_graphs(srv, cat)
              data == IF priced.kind = "list" THEN priced ELSE fb.full
              r3 == IF priced.kind = "list" THEN r2 ELSE r2 \o fb.requests
          IN IF priced.kind # "list" /\ fb.error # ""
             THEN Outcome(st2, "raised", fb.error, r3)
             ELSE
             LET post == PostprocessData(data, only_available)
             IN IF ~post.ok THEN Outcome(st2, "raised", post.error, r3)
                ELSE Outcome([st2 EXCEPT !.items = post.rows], "returned", "", r3)

\* ------------------------- _fallback_fetch_and_enrich (UI/decor_price)
\* lines 62-76: the mid price of a fetched record, [ok, val, error]; float() of
\* a value that does not convert, or of None when no price is there, raises
EnrichMid(full) ==
    LET p_s == Get(full, "PriceSmall")
        p_m == Get(full, "PriceMedium")
        p_l == Get(full, "PriceLarge")
    IN IF ~IsNone(p_m) THEN FloatTry(p_m)
       ELSE IF ~IsNone(p_s) /\ ~IsNone(p_l)
            THEN IF ~FloatOf(p_s).ok THEN FloatTry(p_s)
                 ELSE IF ~FloatOf(p_l).ok THEN FloatTry(p_l)
                 ELSE [ok |-> TRUE, error |-> "",
                       val |-> FloatHalves((FloatOf(p_s).val.v + FloatOf(p_l).val.v) \div 2)]
            ELSE FloatTry(IF ~IsNone(p_s) THEN p_s ELSE p_l)

\* lines 78-89: the dict appended for a fetched record
Enriched(full, mid) ==
    [EmptyDict EXCEPT !.DecorId = IntOf(Get(full, "DecorId")).val,
                      !.DecorName = Get(full, "DecorName"),
                      !.Category = Get(full, "Category"),
                      !.Region = Get(full, "Region"),
                      !.PhotoUrl = Get(full, "PhotoUrl"),
                      !.Available = Get(full, "Available"),
                      !.PriceSmall = Get(full, "PriceSmall"),
                      !.PriceMedium = Get(full, "PriceMedium"),
                      !.PriceLarge = Get(full, "PriceLarge"),
                      !.MidPrice = mid]

\* the loop of lines 54-89; acc carries `enriched`, the requests issued and
\* the exception that ended the loop
RECURSIVE FallbackLoopDecorPrice(_, _, _)
FallbackLoopDecorPrice(srv, rows, acc) ==
    IF Len(rows) = 0 \/ acc.error # "" THEN acc
    ELSE LET row == rows[1]
             did == PyOr(Get(row, "DecorId"), PyOr(Get(row, "decorId"), Get(row, "id")))
         IN IF IsNone(did) THEN FallbackLoopDecorPrice(srv, Tail(rows), acc)
            ELSE IF ~IntOf(did).ok THEN [acc EXCEPT !.error = "ValueError"]
            ELSE LET n == IntOf(did).val.v \div 2
                     reply == GetReply(srv, n)
                     reqs == Append(acc.requests, GetReq(n))
                     mid == EnrichMid(reply.obj)
                 IN IF reply.kind = "raise"
                    THEN [acc EXCEPT !.error = "HTTPError", !.requests = reqs]
                    ELSE IF reply.kind # "obj"
                    THEN FallbackLoopDecorPrice(srv, Tail(rows), [acc EXCEPT !.requests = reqs])
                    ELSE IF ~mid.ok
                    THEN [acc EXCEPT !.error = mid.error, !.requests = reqs]
                    ELSE IF ~IntOf(Get(reply.obj, "DecorId")).ok
                    THEN [acc EXCEPT !.error = FloatError(Get(reply.obj, "DecorId")),
                                     !.requests = reqs]
                    ELSE FallbackLoopDecorPrice(srv, Tail(rows),
                            [acc EXCEPT !.requests = reqs,
                                        !.enriched = Append(@, Enriched(reply.obj, mid.val))])

\* _fallback_fetch_and_enrich(category): [enriched, requests, error]; the list
\* is sorted by (MidPrice, str(DecorName or "")) before it is returned
_fallback_fetch_and_enrich_decor_price(srv, cat) ==
    LET start == [enriched |-> <<>>, requests |-> <<ListReq(cat)>>, error |-> ""]
        base_list == ListReply(srv, StrOf(cat).s)
    IN IF base_list.kind = "raise" THEN [start EXCEPT !.error = "HTTPError"]
       ELSE IF base_list.kind # "list" THEN [start EXCEPT !.error = "TypeError"]
       ELSE LET acc == FallbackLoopDecorPrice(srv, base_list.items, start)
            IN IF acc.error # "" THEN acc
               ELSE [acc EXCEPT !.enriched = SortByKey(@)]

\* ------------------------------------------------ load (UI/decor_price)
\* lines 111-116: the filter and the sort on the payload as it came; the sort
\* key float(MidPrice or 0) raises for a MidPrice that does not convert
FilterAndSortRaw(data, only_available) ==
    LET kept == FilterAvailable(data, only_available)
    IN IF \A i \in 1..Len(kept) : SortKey(kept[i]).m.ok
       THEN [ok |-> TRUE, rows |-> SortByKey(kept)]
       ELSE [ok |-> FALSE, rows |-> <<>>]

\* load(decor_id, only_available) on an object whose fields are st
load_decor_price(st, srv, decor_id, only_available) ==
    LET focus == _get_focus(srv, decor_id)
        r1 == <<GetReq(decor_id)>>
    IN IF ~focus.ok THEN Outcome(st, "raised", focus.error, r1)
       ELSE
       LET st1 == [st EXCEPT !.focus_item = ObjResp(focus.row)]
           fid == IntOf(Get(focus.row, "DecorId"))
       IN IF ~fid.ok
          THEN Outcome(st1, "raised", FloatError(Get(focus.row, "DecorId")), r1)
          ELSE
          LET cat == Get(focus.row, "Category")
              st2 == [st1 EXCEPT !.focus_id = fid.val, !.category = cat]
              r2 == Append(r1, PricesReq(cat))
              priced == _try_prices_endpoint(srv, cat)
              fb == _fallback_fetch_and_enrich_decor_price(srv, cat)
              data == IF priced.kind = "list" THEN priced.items ELSE fb.enriched
              r3 == IF priced.kind = "list" THEN r2 ELSE r2 \o fb.requests
          IN IF priced.kind # "list" /\ fb.error # ""
             THEN Outcome(st2, "raised", fb.error, r3)
             ELSE
             LET post == FilterAndSortRaw(data, only_available)
             IN IF ~post.ok THEN Outcome(st2, "raised", "ValueError", r3)
                ELSE Outcome([st2 EXCEPT !.items = post.rows], "returned", "", r3)

\* ------------------------------------------ decor_price_view._calc_midprice
\* _calc_midprice(item): [ok, val, error]. Medium > avg(S/L) > S or L >
\* MidPrice > MinPrice > 0, each through an unguarded float()
_calc_midprice(item) ==
    LET p_s == Get(item, "PriceSmall")
        p_m == Get(item, "PriceMedium")
        p_l == Get(item, "PriceLarge")
        mp == Get(item, "MidPrice")
        mn == Get(item, "MinPrice")
    IN IF ~IsNone(p_m) THEN FloatTry(p_m)
       ELSE IF ~IsNone(p_s) /\ ~IsNone(p_l)
            THEN IF ~FloatOf(p_s).ok THEN FloatTry(p_s)
                 ELSE IF ~FloatOf(p_l).ok THEN FloatTry(p_l)
                 ELSE [ok |-> TRUE, error |-> "",
                       val |-> FloatHalves((FloatOf(p_s).val.v + FloatOf(p_l).val.v) \div 2)]
       ELSE IF ~IsNone(p_s) THEN FloatTry(p_s)
       ELSE IF ~IsNone(p_l) THEN FloatTry(p_l)
       ELSE IF ~IsNone(mp) THEN FloatTry(mp)
       ELSE IF ~IsNone(mn) THEN FloatTry(mn)
       ELSE [ok |-> TRUE, error |-> "", val |-> PyFloat(0)]

\* render_chart, lines 251-254: the bar values, one per item
ChartValues(items) == [i \in 1..Len(items) |-> _calc_midprice(items[i])]

\* ------------------------------------------------------------- variables
VARIABLES
    impl,        \* which DecorPriceModel class the object is: "graphs" or "decor_price"
    _items,      \* self._items
    focus_id,    \* self.focus_id
    focus_item,  \* self.focus_item (NullResp for None)
    category,    \* self.category
    server,      \* what the server replies now: [get, prices, list, down]
    call,        \* the last load: its arguments, how it ended, its requests
    mid_in,      \* the dict first handed to _ensure_midprice
    mid_it,      \* that dict now (the calls write into it)
    mid_calls,   \* one entry per call: the dict before, after, the return value
    rk_in,       \* a list handed to _postprocess_list
    rk_perm,     \* the same dicts in another order
    rk_only,     \* the only_available argument of both calls
    rk_out,      \* [done, rows]: the call on rk_in and what it returned
    rk_out_perm, \* [done, rows]: the call on rk_perm and what it returned
    norm_in,     \* a raw dict, as it was before _normalize_item got it
    norm_out,    \* [done, arg, ret, raised]: _normalize_item(norm_in)
    norm_rows,   \* [done, rows]: _postprocess_list([norm_in], True)
    mid_impls,   \* what each of the three mid-price computations made of mid_in
    threads,     \* the threads inside load on the one object: position and locals
    loader,      \* the ImageLoader: _mem, _inflight, the replies awaited, the signals
    login,       \* the LoginPresenter, the form of its view and its worker threads
    shell        \* the MainShell: pages, history, the page shown, the two buttons

vars ==
    <<impl, _items, focus_id, focus_item, category, server, call,
      mid_in, mid_it, mid_calls, rk_in, rk_perm, rk_only, rk_out, rk_out_perm,
      norm_in, norm_out, norm_rows, mid_impls, threads, loader, login, shell>>

NotCalled == [done |-> FALSE, rows |-> <<>>]
NoCall ==
    [decor_id |-> 0, only_available |-> FALSE, outcome |-> "none", error |-> "",
     requests |-> <<>>]
NoServer ==
    [get |-> <<>>, prices |-> NullResp, list |-> NullResp, down |-> {}]

\* the variables a specification leaves alone
NoResult == [done |-> FALSE, ok |-> FALSE, val |-> None]
NoResults == [graphs |-> NoResult, decor_price |-> NoResult, view |-> NoResult]
MidIdle ==
    /\ mid_in = EmptyDict /\ mid_it = EmptyDict /\ mid_calls = <<>>
    /\ mid_impls = NoResults
RankIdle ==
    /\ rk_in = <<>> /\ rk_perm = <<>> /\ rk_only = FALSE
    /\ rk_out = NotCalled /\ rk_out_perm = NotCalled
NoNormalize == [done |-> FALSE, arg |-> EmptyDict, ret |-> EmptyDict, raised |-> FALSE]
NormIdle == norm_in = EmptyDict /\ norm_out = NoNormalize /\ norm_rows = NotCalled
\* __init__ (lines 11-15) of an object of class "graphs" that never loads
ModelIdle ==
    /\ impl = "graphs" /\ _items = <<>> /\ focus_id = None /\ focus_item = NullResp
    /\ category = None /\ server = NoServer /\ call = NoCall
\* no thread, no ImageLoader, no LoginPresenter and no MainShell made
NoObject == [made |-> FALSE]
AppIdle == threads = <<>> /\ loader = NoObject /\ login = NoObject /\ shell = NoObject
MidVars == <<mid_in, mid_it, mid_calls, mid_impls>>
AppVars == <<threads, loader, login, shell>>
RankVars == <<rk_in, rk_perm, rk_only, rk_out, rk_out_perm>>
NormVars == <<norm_in, norm_out, norm_rows>>
ModelVars == <<impl, _items, focus_id, focus_item, category, server, call>>

\* ================================================= _ensure_midprice calls
MidInputs ==
    {[EmptyDict EXCEPT !.PriceSmall = a, !.PriceMedium = b, !.PriceLarge = c,
                       !.MidPrice = d, !.MinPrice = e] :
        a \in PriceVals, b \in PriceVals, c \in PriceVals,
        d \in PriceVals, e \in PriceVals}

InitMid ==
    /\ mid_in \in MidInputs
    /\ mid_it = mid_in
    /\ mid_calls = <<>>
    /\ mid_impls = NoResults
    /\ RankIdle
    /\ NormIdle
    /\ ModelIdle
    /\ AppIdle

\* one call _ensure_midprice(it) on the same dict object
CallEnsureMidprice ==
    /\ Len(mid_calls) < MaxCalls
    /\ LET r == _ensure_midprice(mid_it)
       IN /\ mid_it' = r.it
          /\ mid_calls' = Append(mid_calls,
                [before |-> mid_it, after |-> r.it, ret |-> r.ret, raised |-> r.raised])
    /\ UNCHANGED <<mid_in, mid_impls, RankVars, NormVars, ModelVars, AppVars>>

NextMid == CallEnsureMidprice

SpecMid == InitMid /\ [][NextMid]_vars

\* ------------------------------------------- claims about _ensure_midprice
\* how the claims read a price field of the dict handed in
Present(x) == IsNumber(x)
Missing(x) == x.t \in {"absent", "none"}
CallIdx == 1..Len(mid_calls)
Returned(c, h) == ~c.raised /\ c.ret.t = "float" /\ c.ret.v = h

\* C1: whenever PriceMedium is a number, the resolved mid price equals
\* PriceMedium, whatever PriceSmall, PriceLarge, MidPrice and MinPrice hold.
C1_MediumWins ==
    \A i \in CallIdx :
        LET c == mid_calls[i]
        IN Present(c.before.PriceMedium) => Returned(c, c.before.PriceMedium.v)

\* a call where the medium price differs from the small/large average and from
\* the stored MidPrice, and the medium price came back
C1_Witness ==
    \E i \in CallIdx :
        LET b == mid_calls[i].before
        IN /\ Present(b.PriceMedium) /\ Present(b.PriceSmall) /\ Present(b.PriceLarge)
           /\ Present(b.MidPrice)
           /\ (b.PriceSmall.v + b.PriceLarge.v) \div 2 # b.PriceMedium.v
           /\ b.MidPrice.v # b.PriceMedium.v
           /\ Returned(mid_calls[i], b.PriceMedium.v)

\* C2: with PriceMedium absent and both PriceSmall and PriceLarge present the
\* result is (PriceSmall + PriceLarge) / 2 whatever MidPrice and MinPrice hold;
\* with only one of the two present the result is that price, not an average.
C2_Average ==
    \A i \in CallIdx :
        LET c == mid_calls[i]
            b == c.before
        IN Missing(b.PriceMedium) =>
            /\ (Present(b.PriceSmall) /\ Present(b.PriceLarge)
                    => Returned(c, (b.PriceSmall.v + b.PriceLarge.v) \div 2))
            /\ (Present(b.PriceSmall) /\ Missing(b.PriceLarge)
                    => Returned(c, b.PriceSmall.v))
            /\ (Missing(b.PriceSmall) /\ Present(b.PriceLarge)
                    => Returned(c, b.PriceLarge.v))

\* a call that averaged two different prices although the dict carried a
\* MidPrice and a MinPrice of its own
C2_Witness ==
    \E i \in CallIdx :
        LET b == mid_calls[i].before
        IN /\ Missing(b.PriceMedium) /\ Present(b.PriceSmall) /\ Present(b.PriceLarge)
           /\ b.PriceSmall.v # b.PriceLarge.v
           /\ Present(b.MidPrice) /\ Present(b.MinPrice)
           /\ b.MidPrice.v # (b.PriceSmall.v + b.PriceLarge.v) \div 2
           /\ Returned(mid_calls[i], (b.PriceSmall.v + b.PriceLarge.v) \div 2)

\* C3: with PriceMedium absent and exactly one of PriceSmall and PriceLarge
\* present, the result is that one price, even if the record carries a
\* MidPrice or a MinPrice.
C3_SinglePrice ==
    \A i \in CallIdx :
        LET c == mid_calls[i]
            b == c.before
        IN Missing(b.PriceMedium) =>
            /\ (Present(b.PriceSmall) /\ Missing(b.PriceLarge)
                    => Returned(c, b.PriceSmall.v))
            /\ (Missing(b.PriceSmall) /\ Present(b.PriceLarge)
                    => Returned(c, b.PriceLarge.v))

\* a call with only PriceLarge, and a stored MidPrice and MinPrice that differ
\* from it
C3_Witness ==
    \E i \in CallIdx :
        LET b == mid_calls[i].before
        IN /\ Missing(b.PriceMedium) /\ Missing(b.PriceSmall) /\ Present(b.PriceLarge)
           /\ Present(b.MidPrice) /\ b.MidPrice.v # b.PriceLarge.v
           /\ Present(b.MinPrice) /\ b.MinPrice.v # b.PriceLarge.v
           /\ Returned(mid_calls[i], b.PriceLarge.v)

\* C4: with PriceSmall, PriceMedium and PriceLarge all absent the result is the
\* pre-existing MidPrice if present, otherwise MinPrice if present, otherwise 0.0.
C4_StoredFallback ==
    \A i \in CallIdx :
        LET c == mid_calls[i]
            b == c.before
        IN Missing(b.PriceSmall) /\ Missing(b.PriceMedium) /\ Missing(b.PriceLarge) =>
            /\ (Present(b.MidPrice) => Returned(c, b.MidPrice.v))
            /\ (Missing(b.MidPrice) /\ Present(b.MinPrice) => Returned(c, b.MinPrice.v))
            /\ (Missing(b.MidPrice) /\ Missing(b.MinPrice) => Returned(c, 0))

\* a first call on a dict without small, medium and large price whose stored
\* MidPrice differs from its MinPrice
C4_Witness ==
    /\ Len(mid_calls) = 1
    /\ LET b == mid_calls[1].before
       IN /\ Missing(b.PriceSmall) /\ Missing(b.PriceMedium) /\ Missing(b.PriceLarge)
          /\ Present(b.MidPrice) /\ Present(b.MinPrice) /\ b.MidPrice.v # b.MinPrice.v
          /\ Returned(mid_calls[1], b.MidPrice.v)

\* C5: for every combination of absent, null, numeric and non-numeric price
\* fields the call returns a float and does not raise.
C5_Total ==
    \A i \in CallIdx : ~mid_calls[i].raised /\ mid_calls[i].ret.t = "float"

\* a call on a dict whose five price fields are strings that are no numbers
C5_Witness ==
    \E i \in CallIdx :
        LET b == mid_calls[i].before
        IN /\ \A k \in {"PriceSmall", "PriceMedium", "PriceLarge", "MidPrice", "MinPrice"} :
                b[k].t = "str" /\ ~IsDigits(b[k].s)
           /\ ~mid_calls[i].raised /\ mid_calls[i].ret = PyFloat(0)

\* C6: after a call the dict's MidPrice is the returned value, and a further
\* call on the modified dict returns the same value and leaves the dict as it is.
C6_Idempotent ==
    \A i \in CallIdx :
        LET c == mid_calls[i]
        IN /\ ~c.raised
           /\ c.after.MidPrice = c.ret
           /\ i > 1 => (c.ret = mid_calls[i - 1].ret /\ c.after = c.before)

\* a second call on a dict whose MidPrice the first call replaced
C6_Witness ==
    /\ Len(mid_calls) >= 2
    /\ mid_calls[1].before.MidPrice # mid_calls[1].after.MidPrice
    /\ mid_calls[2].ret = mid_calls[1].ret
    /\ mid_calls[2].after = mid_calls[2].before

\* ======================================= the three mid-price computations
\* records whose price fields are each missing, null or a number
NumVals == {Absent, None, PyInt(0), PyInt(MaxPrice), PyFloat(1)}

NumInputs ==
    {[EmptyDict EXCEPT !.PriceSmall = a, !.PriceMedium = b, !.PriceLarge = c,
                       !.MidPrice = d, !.MinPrice = e] :
        a \in NumVals, b \in NumVals, c \in NumVals, d \in NumVals, e \in NumVals}

InitImpls ==
    /\ mid_in \in NumInputs
    /\ mid_it = mid_in
    /\ mid_calls = <<>>
    /\ mid_impls = NoResults
    /\ RankIdle
    /\ NormIdle
    /\ ModelIdle
    /\ AppIdle

\* UI/graphs: DecorPriceModel._ensure_midprice(dict(mid_in))
CallGraphsMid ==
    /\ ~mid_impls.graphs.done
    /\ LET r == _ensure_midprice(mid_in)
       IN mid_impls' = [mid_impls EXCEPT !.graphs =
                          [done |-> TRUE, ok |-> ~r.raised, val |-> r.ret]]
    /\ UNCHANGED <<mid_in, mid_it, mid_calls, RankVars, NormVars, ModelVars, AppVars>>

\* UI/decor_price: lines 62-76 of _fallback_fetch_and_enrich on mid_in
CallDecorPriceMid ==
    /\ ~mid_impls.decor_price.done
    /\ LET r == EnrichMid(mid_in)
       IN mid_impls' = [mid_impls EXCEPT !.decor_price =
                          [done |-> TRUE, ok |-> r.ok, val |-> r.val]]
    /\ UNCHANGED <<mid_in, mid_it, mid_calls, RankVars, NormVars, ModelVars, AppVars>>

\* the view: _calc_midprice(mid_in)
CallViewMid ==
    /\ ~mid_impls.view.done
    /\ LET r == _calc_midprice(mid_in)
       IN mid_impls' = [mid_impls EXCEPT !.view =
                          [done |-> TRUE, ok |-> r.ok, val |-> r.val]]
    /\ UNCHANGED <<mid_in, mid_it, mid_calls, RankVars, NormVars, ModelVars, AppVars>>

NextImpls == CallGraphsMid \/ CallDecorPriceMid \/ CallViewMid

SpecImpls == InitImpls /\ [][NextImpls]_vars

\* C24: for every record whose price fields are each absent or a number the
\* three computations (UI/graphs _ensure_midprice, the inline one of
\* UI/decor_price, the view's _calc_midprice) return the same value and none
\* of them raises.
C24_ThreeImplementationsAgree ==
    \A a, b \in {"graphs", "decor_price", "view"} :
        (mid_impls[a].done /\ mid_impls[b].done) =>
            /\ mid_impls[a].ok /\ mid_impls[b].ok
            /\ mid_impls[a].val = mid_impls[b].val

\* ================================================ _postprocess_list calls
\* longest list handed to _postprocess_list
MaxItems == 3

NameA == PyStr(<<ChA>>)
NameB == PyStr(<<ChB>>)
NameAB == PyStr(<<ChA, ChB>>)

\* Payload dicts: equal and different mid prices, equal and different names,
\* names under both keys or missing, every kind of Available.
RankPool ==
    {[EmptyDict EXCEPT !.DecorId = PyInt(1), !.DecorName = NameB,
                       !.PriceMedium = PyInt(1), !.Available = PyBool(TRUE)],
     [EmptyDict EXCEPT !.DecorId = PyInt(2), !.DecorName = NameA,
                       !.PriceSmall = PyInt(0), !.PriceLarge = PyInt(2)],
     [EmptyDict EXCEPT !.decorId = PyStr(<<ChZero + 3>>), !.DecorName = NameA,
                       !.PriceMedium = PyFloat(1), !.Available = PyBool(FALSE)],
     [EmptyDict EXCEPT !.id = PyInt(4), !.Name = NameAB,
                       !.MidPrice = PyStr(<<ChZero + 2>>), !.Available = None],
     [EmptyDict EXCEPT !.DecorName = NameB, !.PriceSmall = PyStr(<<ChX>>),
                       !.MinPrice = PyInt(0), !.Available = PyInt(1)],
     EmptyDict}

Lists(pool, n) == UNION {[1..k -> pool] : k \in 0..n}

Reorderings(xs) ==
    {[i \in 1..Len(xs) |-> xs[p[i]]] : p \in Permutations(1..Len(xs))}

InitRank ==
    /\ rk_in \in Lists(RankPool, MaxItems)
    /\ rk_perm \in Reorderings(rk_in)
    /\ rk_only \in BOOLEAN
    /\ rk_out = NotCalled
    /\ rk_out_perm = NotCalled
    /\ MidIdle
    /\ NormIdle
    /\ ModelIdle
    /\ AppIdle

\* _postprocess_list(rk_in, rk_only)
CallPostprocess ==
    /\ ~rk_out.done
    /\ rk_out' = [done |-> TRUE, rows |-> _postprocess_list(rk_in, rk_only)]
    /\ rk_in' = InputAfterPostprocess(rk_in)
    /\ UNCHANGED <<rk_perm, rk_only, rk_out_perm, MidVars, NormVars, ModelVars, AppVars>>

\* _postprocess_list(rk_perm, rk_only)
CallPostprocessReordered ==
    /\ ~rk_out_perm.done
    /\ rk_out_perm' = [done |-> TRUE, rows |-> _postprocess_list(rk_perm, rk_only)]
    /\ rk_perm' = InputAfterPostprocess(rk_perm)
    /\ UNCHANGED <<rk_in, rk_only, rk_out, MidVars, NormVars, ModelVars, AppVars>>

NextRank == CallPostprocess \/ CallPostprocessReordered

SpecRank == InitRank /\ [][NextRank]_vars

\* ------------------------------------------ claims about _postprocess_list
Count(xs, x) == Cardinality({i \in 1..Len(xs) : xs[i] = x})
SameItems(xs, ys) ==
    /\ Len(xs) = Len(ys)
    /\ \A i \in 1..Len(xs) : Count(xs, xs[i]) = Count(ys, xs[i])
Normed(xs) == [i \in 1..Len(xs) |-> _normalize_item(xs[i])]

\* C8: with onlyAvailable = true the ranking returns no item whose Available
\* is false; with onlyAvailable = false it returns every input item.
C8_AvailabilityFilter ==
    rk_out.done =>
        IF rk_only
        THEN \A i \in 1..Len(rk_out.rows) : rk_out.rows[i].Available = PyBool(TRUE)
        ELSE SameItems(rk_out.rows, Normed(rk_in))

\* a call with onlyAvailable = true that dropped an unavailable item and kept
\* another one
C8_Witness ==
    /\ rk_out.done /\ rk_only
    /\ \E i \in 1..Len(rk_in) : rk_in[i].Available = PyBool(FALSE)
    /\ Len(rk_out.rows) > 0
    /\ Len(rk_out.rows) < Len(rk_in)

\* C9 as claimed: any two orders of the same items are ranked into the same
\* sequence of items.
C9_AsClaimed ==
    rk_out.done /\ rk_out_perm.done => rk_out.rows = rk_out_perm.rows

KeysOf(rows) == [i \in 1..Len(rows) |-> <<rows[i].MidPrice, rows[i].DecorName>>]
DistinctKeys(rows) ==
    \A i, j \in 1..Len(rows) : i # j => KeysOf(rows)[i] # KeysOf(rows)[j]

\* C9 amended: any two orders of the same items are ranked into sequences with
\* the same (MidPrice, DecorName) at every position, and into the same sequence
\* of items when no two items of the result share both MidPrice and DecorName.
C9_DeterministicUpToTies ==
    rk_out.done /\ rk_out_perm.done =>
        /\ KeysOf(rk_out.rows) = KeysOf(rk_out_perm.rows)
        /\ DistinctKeys(rk_out.rows) => rk_out.rows = rk_out_perm.rows

\* two different orders of three items, two of them with the same mid price
\* and different names, ranked into the same sequence
C9_Witness ==
    /\ rk_out.done /\ rk_out_perm.done
    /\ rk_in # rk_perm
    /\ Len(rk_out.rows) = 3
    /\ DistinctKeys(rk_out.rows)
    /\ \E i, j \in 1..3 :
          /\ i # j
          /\ rk_out.rows[i].MidPrice = rk_out.rows[j].MidPrice
    /\ rk_out.rows = rk_out_perm.rows

NormVals == {Absent, None, PyInt(MaxPrice), PyStr(<<ChZero + 1>>), PyStr(<<ChX>>)}
IdVals == {Absent, PyInt(1), PyStr(<<ChZero + 7>>), PyStr(<<ChX>>)}
AvailVals == {Absent, None, PyBool(TRUE), PyBool(FALSE), PyInt(0), PyInt(1)}

\* Raw records: every combination of the five price fields, and every
\* combination of id, names, availability and display field beside a price
\* that converts or does not.
NormInputs ==
    {[EmptyDict EXCEPT !.PriceSmall = a, !.PriceMedium = b, !.PriceLarge = c,
                       !.MinPrice = d, !.MidPrice = e] :
        a \in NormVals, b \in NormVals, c \in NormVals, d \in NormVals, e \in NormVals}
    \cup
    {[EmptyDict EXCEPT !.DecorId = i, !.DecorName = n, !.Name = m, !.Available = a,
                       !.Theme = t, !.PriceSmall = p] :
        i \in IdVals, n \in {Absent, NameA}, m \in {Absent, NameB}, a \in AvailVals,
        t \in {Absent, NameAB}, p \in {PyStr(<<ChX>>), PyInt(1)}}

InitNorm ==
    /\ norm_in \in NormInputs
    /\ norm_out = NoNormalize
    /\ norm_rows = NotCalled
    /\ MidIdle
    /\ RankIdle
    /\ ModelIdle
    /\ AppIdle

\* _normalize_item(norm_in)
CallNormalize ==
    /\ ~norm_out.done
    /\ LET r == NormalizeCall(norm_in)
       IN norm_out' = [done |-> TRUE, arg |-> r.arg, ret |-> r.ret, raised |-> r.raised]
    /\ UNCHANGED <<norm_in, norm_rows, MidVars, RankVars, ModelVars, AppVars>>

\* _postprocess_list([norm_in], True)
CallPostprocessOne ==
    /\ ~norm_rows.done
    /\ norm_rows' = [done |-> TRUE, rows |-> _postprocess_list(<<norm_in>>, TRUE)]
    /\ UNCHANGED <<norm_in, norm_out, MidVars, RankVars, ModelVars, AppVars>>

NextNorm == CallNormalize \/ CallPostprocessOne

SpecNorm == InitNorm /\ [][NextNorm]_vars

\* ------------------------------------------- claims about _normalize_item
\* a raw value float() turns into a number
Convertible(x) == ~Missing(x) /\ FloatOf(x).ok

\* C11 as claimed: normalization never raises, each of the five price fields
\* (MidPrice included) that is missing or does not convert is None afterwards,
\* and name and availability are normalized all the same.
C11_AsClaimed ==
    norm_out.done =>
        /\ ~norm_out.raised
        /\ \A k \in PriceKeys : ~Convertible(norm_in[k]) => norm_out.ret[k] = None
        /\ norm_out.ret.DecorName.t = "str" /\ norm_out.ret.Available.t = "bool"

\* C11 amended: normalization never raises; each of PriceSmall, PriceMedium,
\* PriceLarge and MinPrice is float(value) when the value converts and None
\* otherwise, whatever the other fields hold; MidPrice is always a float (0.0
\* when none of the five fields converts); the name is a str, Available a bool
\* and the other fields are kept.
C11_PricesDegradeToNone ==
    norm_out.done =>
        /\ ~norm_out.raised
        /\ \A k \in PriceKeys \ {"MidPrice"} :
              norm_out.ret[k] =
                  IF Convertible(norm_in[k]) THEN FloatOf(norm_in[k]).val ELSE None
        /\ norm_out.ret.MidPrice.t = "float"
        /\ (\A k \in PriceKeys : ~Convertible(norm_in[k])) => norm_out.ret.MidPrice = PyFloat(0)
        /\ norm_out.ret.DecorName.t = "str" /\ norm_out.ret.Available.t = "bool"
        /\ norm_out.ret.Theme = norm_in.Theme /\ norm_out.ret.Category = norm_in.Category

\* a record whose PriceSmall and MidPrice are no numbers while PriceLarge and
\* MinPrice are: the first became None, the others floats
C11_Witness ==
    /\ norm_out.done /\ ~norm_out.raised
    /\ norm_in.PriceSmall = PyStr(<<ChX>>) /\ norm_in.MidPrice = PyStr(<<ChX>>)
    /\ norm_in.PriceMedium = Absent
    /\ norm_in.PriceLarge = PyInt(MaxPrice) /\ norm_in.MinPrice = PyStr(<<ChZero + 1>>)
    /\ norm_out.ret.PriceSmall = None /\ norm_out.ret.PriceMedium = None
    /\ norm_out.ret.PriceLarge = PyFloat(MaxPrice) /\ norm_out.ret.MinPrice = PyFloat(1)
    /\ norm_out.ret.MidPrice = PyFloat(MaxPrice)

\* the values of Available that mark a record as unavailable
ExplicitlyUnavailable == {PyBool(FALSE), PyInt(0)}

\* C18: a raw record that is not explicitly marked unavailable (Available
\* absent or null included) is normalized to Available = true, and the
\* onlyAvailable filter drops only records explicitly marked unavailable.
C18_AvailableByDefault ==
    /\ norm_out.done =>
          (norm_in.Available \notin ExplicitlyUnavailable
              => norm_out.ret.Available = PyBool(TRUE))
    /\ norm_rows.done =>
          (Len(norm_rows.rows) = 0 => norm_in.Available \in ExplicitlyUnavailable)

\* C21: _normalize_item is a pure function over one record: after the call
\* the raw mapping that was passed in holds what it held before.
C21_NormalizeLeavesRawAlone ==
    norm_out.done => norm_out.arg = norm_in

\* ===================================================== the model object
\* longest list a peer endpoint replies with
MaxPeers == 2

\* the decor ids of the model
Ids == {1, 2}

CatA == PyStr(<<ChA>>)
CatB == PyStr(<<ChB>>)
NameOf(i) == IF i = 1 THEN NameB ELSE NameA

\* a complete record of decor i, priced by its medium size
Good(i) ==
    [EmptyDict EXCEPT !.DecorId = PyInt(i), !.DecorName = NameOf(i), !.Category = CatA,
                      !.Region = PyStr(<<ChA, ChA>>), !.PhotoUrl = PyStr(<<ChB, ChA>>),
                      !.Theme = PyStr(<<ChB, ChB>>),
                      !.Available = PyBool(TRUE), !.PriceSmall = None,
                      !.PriceMedium = PyInt(1), !.PriceLarge = None, !.MidPrice = PyInt(1)]

\* an unavailable record of decor i in another category, priced by small and
\* large, with a null MidPrice
Alt(i) ==
    [EmptyDict EXCEPT !.DecorId = PyInt(i), !.DecorName = NameOf(i), !.Category = CatB,
                      !.Available = PyBool(FALSE), !.PriceSmall = PyInt(0),
                      !.PriceMedium = None, !.PriceLarge = PyInt(i), !.MidPrice = None]

\* a record without id, price or availability whose MidPrice is no number
Odd ==
    [EmptyDict EXCEPT !.Name = NameAB, !.Category = CatA, !.Available = None,
                      !.MidPrice = PyStr(<<ChX>>)]

PeerPool == {Good(i) : i \in Ids} \cup {Alt(i) : i \in Ids} \cup {Odd}

\* rows of /DB/decors/list: an id each, or none
BaseRows == {[EmptyDict EXCEPT !.DecorId = PyInt(i)] : i \in Ids} \cup {EmptyDict}

\* /DB/decors/get/{i}: for the first id every kind of reply, for the others a
\* record of that decor or null
GetReplies(i) ==
    IF i = 1
    THEN {RaiseResp, NullResp, OtherResp, ObjResp(EmptyDict), ObjResp(Good(i)),
          ObjResp(Alt(i)), ObjResp(Odd)}
    ELSE {NullResp, ObjResp(Good(i)), ObjResp(Alt(i))}

\* what /DB/decors/get/{i} replies with, for each id
GetTables == {g \in [Ids -> UNION {GetReplies(i) : i \in Ids}] : \A i \in Ids : g[i] \in GetReplies(i)}

\* The prices endpoint replies with peers, with an empty list or with no list;
\* the list endpoint is drawn freely when the prices endpoint has no peers,
\* and replies with one row or with no list when it has.
Servers ==
    {[get |-> g, prices |-> ListResp(ps), list |-> l, down |-> {}] :
        g \in GetTables, ps \in Lists(PeerPool, MaxPeers) \ {<<>>},
        l \in {ListResp(<<[EmptyDict EXCEPT !.DecorId = PyInt(1)]>>), OtherResp}}
    \cup
    {[get |-> g, prices |-> p, list |-> l, down |-> {}] :
        g \in GetTables,
        p \in {OtherResp, ListResp(<<>>)},
        l \in {RaiseResp, OtherResp} \cup {ListResp(rs) : rs \in Lists(BaseRows, MaxPeers)}}

\* the replies while the endpoints in server.down fail
Replies(srv) ==
    IF IsCatalog(srv) THEN srv
    ELSE [get |-> srv.get,
          prices |-> IF "prices" \in srv.down THEN RaiseResp ELSE srv.prices,
          list |-> IF "list" \in srv.down THEN RaiseResp ELSE srv.list]

Fields == [items |-> _items, focus_id |-> focus_id, focus_item |-> focus_item,
           category |-> category]

Init ==
    /\ impl \in {"graphs", "decor_price"}
    /\ _items = <<>>
    /\ focus_id = None
    /\ focus_item = NullResp
    /\ category = None
    /\ server \in Servers
    /\ call = NoCall
    /\ MidIdle
    /\ RankIdle
    /\ NormIdle
    /\ AppIdle

Store(r, decor_id, only_available) ==
    /\ _items' = r.st.items
    /\ focus_id' = r.st.focus_id
    /\ focus_item' = r.st.focus_item
    /\ category' = r.st.category
    /\ call' = [decor_id |-> decor_id, only_available |-> only_available,
                outcome |-> r.outcome, error |-> r.error, requests |-> r.requests]
    /\ UNCHANGED <<impl, server, MidVars, RankVars, NormVars, AppVars>>

\* DecorPriceModel.load of UI/graphs
LoadGraphs ==
    /\ impl = "graphs"
    /\ \E decor_id \in Ids, only_available \in BOOLEAN :
          LET r == load_graphs(Fields, Replies(server), decor_id, only_available)
          IN Store(r, decor_id, only_available)

\* DecorPriceModel.load of UI/decor_price
LoadDecorPrice ==
    /\ impl = "decor_price"
    /\ \E decor_id \in Ids, only_available \in BOOLEAN :
          LET r == load_decor_price(Fields, Replies(server), decor_id, only_available)
          IN Store(r, decor_id, only_available)

\* the prices endpoint of the server starts or stops failing
ServerToggle ==
    /\ \E e \in {"prices"} :
          server' = [server EXCEPT !.down =
                        IF e \in @ THEN @ \ {e} ELSE @ \cup {e}]
    /\ UNCHANGED <<impl, _items, focus_id, focus_item, category, call, MidVars, RankVars, NormVars, AppVars>>

Next == LoadGraphs \/ LoadDecorPrice \/ ServerToggle

Spec == Init /\ [][Next]_vars

\* ------------------------------------- the model against the catalogue
\* the prices a row of dbo.DecorOption carries: a medium price, a small and a
\* large one, or none at all (the three columns are nullable)
DbPrices ==
    {[s |-> None, m |-> PyInt(1), l |-> None],
     [s |-> PyInt(0), m |-> None, l |-> PyInt(2)],
     [s |-> None, m |-> None, l |-> None]}

\* the rows decor i may have (SELECT * FROM dbo.DecorOption: no MidPrice and
\* no MinPrice column)
DbRows(i) ==
    {[EmptyDict EXCEPT !.DecorId = PyInt(i), !.DecorName = NameOf(i), !.Category = c,
                       !.Region = PyStr(<<ChA, ChA>>), !.PhotoUrl = PyStr(<<ChB, ChA>>),
                       !.Theme = PyStr(<<ChB, ChB>>), !.Available = PyBool(a),
                       !.PriceSmall = p.s, !.PriceMedium = p.m, !.PriceLarge = p.l] :
        c \in {CatA, CatB}, a \in BOOLEAN, p \in DbPrices}

\* the categories of the table, as the text of a query string
CategoryTexts == {CatA.s, CatB.s}

\* the sequences that hold each id once
IdOrders ==
    {o \in [1..Cardinality(Ids) -> Ids] : \A i \in Ids : \E k \in DOMAIN o : o[k] = i}

CatalogServers ==
    {[catalog |-> t, order |-> o, down |-> {},
      priced |-> [c \in CategoryTexts |-> CatalogPrices([catalog |-> t, order |-> o], c)],
      listed |-> CatalogList([catalog |-> t, order |-> o], <<>>)] :
        t \in {f \in [Ids -> UNION {DbRows(i) : i \in Ids} \cup {NoRow}] :
                  \A i \in Ids : f[i] \in DbRows(i) \cup {NoRow}},
        o \in IdOrders}

InitCatalog ==
    /\ impl \in {"graphs", "decor_price"}
    /\ _items = <<>>
    /\ focus_id = None
    /\ focus_item = NullResp
    /\ category = None
    /\ server \in CatalogServers
    /\ call = NoCall
    /\ MidIdle
    /\ RankIdle
    /\ NormIdle
    /\ AppIdle

SpecCatalog == InitCatalog /\ [][Next]_vars

\* ------------------------------------------------- claims about rows()
\* rows(): a shallow copy of self._items
rows == _items

\* C7: the list of rows is sorted ascending by MidPrice, and two items with
\* equal MidPrice are in ascending lexical order of DecorName. The rows of the
\* UI/graphs model all carry a float MidPrice and a str DecorName; a row of the
\* UI/decor_price model is compared where it carries them.
C7_SortedByMidPriceThenName ==
    /\ impl = "graphs" =>
          \A i \in 1..Len(rows) : rows[i].MidPrice.t = "float" /\ rows[i].DecorName.t = "str"
    /\ \A i, j \in 1..Len(rows) :
          (i < j /\ Present(rows[i].MidPrice) /\ Present(rows[j].MidPrice)) =>
              /\ rows[i].MidPrice.v <= rows[j].MidPrice.v
              /\ (/\ rows[i].MidPrice.v = rows[j].MidPrice.v
                  /\ rows[i].DecorName.t = "str" /\ rows[j].DecorName.t = "str")
                    => ~StrLess(rows[j].DecorName.s, rows[i].DecorName.s)

\* a load of the UI/graphs model whose payload held two equally priced items
\* in descending name order, and whose rows hold them in ascending name order
C7_Witness ==
    /\ impl = "graphs" /\ call.outcome = "returned"
    /\ "prices" \notin server.down
    /\ Len(rows) = 2 /\ Len(server.prices.items) = 2
    /\ rows[1].MidPrice = rows[2].MidPrice
    /\ StrLess(rows[1].DecorName.s, rows[2].DecorName.s)
    /\ rows[1] = _normalize_item(server.prices.items[2])
    /\ rows[2] = _normalize_item(server.prices.items[1])

\* C10: after any sequence of loads of the UI/graphs model every item of
\* rows() and the stored focus_item (when set) has a float MidPrice and a
\* boolean Available.
C10_NormalizedItems ==
    impl = "graphs" =>
        /\ \A i \in 1..Len(rows) :
              rows[i].MidPrice.t = "float" /\ rows[i].Available.t = "bool"
        /\ focus_item.kind = "obj" =>
              focus_item.obj.MidPrice.t = "float" /\ focus_item.obj.Available.t = "bool"

\* a load that raised after it stored a focus record whose payload had a null
\* Available and no usable price, beside the two rows of an earlier load, one
\* of them from a payload with a null MidPrice
C10_Witness ==
    /\ impl = "graphs" /\ call.outcome = "raised"
    /\ focus_item.kind = "obj" /\ server.get[call.decor_id] = ObjResp(Odd)
    /\ focus_item.obj = _normalize_item(Odd)
    /\ Len(rows) = 2
    /\ \E i \in 1..2, k \in Ids : rows[i] = _normalize_item(Alt(k))

\* ------------------------------------------------- claims about load
\* a step of the model that is a load: the server is as it was
LoadStep == server' = server /\ impl' = impl

\* the focus lookup of a load of decor n finds no record: null, an empty
\* object or a value that is no object
NoFocusRecord(n) ==
    LET row == GetReply(Replies(server), n)
    IN row.kind \in {"null", "other"} \/ (row.kind = "obj" /\ row.obj = EmptyDict)

\* C12: when the focus lookup returns no record (null, an empty object, a
\* non-object), load raises the not-found error (ValueError), leaves
\* focus_item, focus_id, category and the items as they were, and has issued
\* the focus request only.
C12_FocusNotFound ==
    [][(LoadStep /\ NoFocusRecord(call'.decor_id)) =>
          /\ call'.outcome = "raised" /\ call'.error = "ValueError"
          /\ call'.requests = <<GetReq(call'.decor_id)>>
          /\ UNCHANGED <<_items, focus_id, focus_item, category>>]_vars

\* a load of decor 1, for which the server has no record, after a load of
\* decor 2 succeeded: it raised, and the model still holds decor 2
C12_Witness ==
    /\ call.decor_id = 1 /\ call.outcome = "raised" /\ call.error = "ValueError"
    /\ server.get[1] \in {NullResp, OtherResp, ObjResp(EmptyDict)}
    /\ call.requests = <<GetReq(1)>>
    /\ focus_id = PyInt(2) /\ focus_item.kind = "obj" /\ Len(rows) > 0

\* the load of this step got as far as the peer fetch
PeerFetched == Len(call'.requests) >= 2 /\ call'.requests[2].path = "prices"

\* the reply of a peer endpoint is a payload that is no list
NotAList(reply) == reply.kind \in {"null", "obj", "other"}

\* C13 as claimed: whenever the prices request or the list request returns a
\* payload that is no list, load raises at once: it issues no further request
\* and stores no items.
C13_AsClaimed ==
    [][(LoadStep /\ PeerFetched /\ NotAList(Replies(server).prices)) =>
          /\ call'.outcome = "raised"
          /\ Len(call'.requests) = 2
          /\ _items' = _items]_vars

\* C13 amended: a prices request that returns no list (or an empty one, or
\* fails) makes load issue the list request; a list request that returns a
\* payload that is no list makes load raise TypeError with no further request
\* and with the items as they were.
C13_ListMustBeAList ==
    [][(LoadStep /\ PeerFetched) =>
          /\ (Replies(server).prices.kind # "list" \/ Replies(server).prices.items = <<>>)
                => (Len(call'.requests) >= 3 /\ call'.requests[3].path = "list")
          /\ (Len(call'.requests) >= 3 /\ NotAList(Replies(server).list))
                => /\ call'.outcome = "raised" /\ call'.error = "TypeError"
                   /\ Len(call'.requests) = 3
                   /\ _items' = _items]_vars

\* a load whose prices request failed and whose list request got no list: it
\* raised TypeError, and the rows of the load before it are still there
C13_Witness ==
    /\ call.outcome = "raised" /\ call.error = "TypeError"
    /\ Len(call.requests) = 3 /\ call.requests[3].path = "list"
    /\ server.list = OtherResp /\ "prices" \in server.down
    /\ Len(rows) > 0

\* the load of this step took the fallback path and its list request got a list
FallbackOnList ==
    /\ Len(call'.requests) >= 3 /\ call'.requests[3].path = "list"
    /\ Replies(server).list.kind = "list"

\* the id of a row of the base list, under any of its keys
RowId(row) == PyOr(Get(row, "DecorId"), PyOr(Get(row, "decorId"), Get(row, "id")))

\* the rows of the base list that have an id and whose detail lookup returns
\* a record
Detailed(base) ==
    {i \in 1..Len(base) :
        /\ IsNumber(RowId(base[i]))
        /\ GetReply(Replies(server), RowId(base[i]).v \div 2).kind = "obj"}

\* C14: in both implementations the fallback path yields one entry for each
\* row of the base list that has an id and whose detail lookup returns a
\* record, and an empty list when the base list is empty: a load without
\* availability filter that returns holds that many rows, and a load on an
\* empty base list returns with no rows.
C14_FallbackAccumulates ==
    [][(LoadStep /\ FallbackOnList) =>
          /\ Replies(server).list.items = <<>>
                => (call'.outcome = "returned" /\ _items' = <<>>)
          /\ (call'.outcome = "returned" /\ ~call'.only_available)
                => Len(_items') = Cardinality(Detailed(Replies(server).list.items))]_vars

\* the peer requests of the last load
PeerRequests == {i \in 1..Len(call.requests) : call.requests[i].path \in {"prices", "list"}}

\* C15: the only_available argument of load is the availability flag of the
\* peer fetch: a load with only_available = False issues no peer request that
\* is restricted to available items.
C15_FlagReachesPeerFetch ==
    ~call.only_available => \A i \in PeerRequests : ~call.requests[i].available

\* the record the focus lookup of the last load fetched
FetchedFocus == server.get[call.decor_id].obj

\* the mid price by the precedence rule, read off a raw record: PriceMedium,
\* else the average of PriceSmall and PriceLarge, else the one of them that is
\* there, else MidPrice, else MinPrice, else 0 (in half units)
ResolvedHalves(raw) ==
    LET num(k) == FloatOf(raw[k]).val.v
        has(k) == Convertible(raw[k])
    IN IF has("PriceMedium") THEN num("PriceMedium")
       ELSE IF has("PriceSmall") /\ has("PriceLarge")
            THEN (num("PriceSmall") + num("PriceLarge")) \div 2
       ELSE IF has("PriceSmall") THEN num("PriceSmall")
       ELSE IF has("PriceLarge") THEN num("PriceLarge")
       ELSE IF has("MidPrice") THEN num("MidPrice")
       ELSE IF has("MinPrice") THEN num("MinPrice") ELSE 0

\* C16: after a successful load of the UI/graphs model the stored focus_item is
\* the fetched focus record normalized: its MidPrice is the float the
\* precedence rule gives for the fetched record, its Available is a boolean,
\* its name a str and its prices floats or None.
C16_FocusNormalized ==
    (impl = "graphs" /\ call.outcome = "returned") =>
        /\ focus_item.kind = "obj"
        /\ focus_item.obj.MidPrice = FloatHalves(ResolvedHalves(FetchedFocus))
        /\ focus_item.obj.Available.t = "bool"
        /\ focus_item.obj.DecorName.t = "str"
        /\ \A k \in PriceKeys : focus_item.obj[k].t \in {"float", "none"}

\* a successful load whose focus record came with a null MidPrice, no medium
\* price and different small and large prices: the stored MidPrice is their
\* average
C16_Witness ==
    /\ impl = "graphs" /\ call.outcome = "returned"
    /\ FetchedFocus.MidPrice = None /\ FetchedFocus.PriceMedium = None
    /\ FetchedFocus.PriceSmall = PyInt(0) /\ FetchedFocus.PriceLarge = PyInt(2)
    /\ focus_item.obj.MidPrice = PyFloat(1)
    /\ focus_item.obj.Available = PyBool(FALSE)

\* C17: a load issues its peer requests only after its own focus lookup found
\* a record, and each of them asks for the Category of that record.
C17_PeerFetchAfterFocus ==
    PeerRequests # {} =>
        /\ call.requests[1] = GetReq(call.decor_id)
        /\ \A i \in PeerRequests : i > 1
        /\ server.get[call.decor_id].kind = "obj" /\ FetchedFocus # EmptyDict
        /\ FetchedFocus.Category.t = "str"
        /\ \A i \in PeerRequests : call.requests[i].category = FetchedFocus.Category.s

\* a load of decor 1 on a server whose two decors are of different
\* categories, after the model held decor 2: the requests name the category
\* of decor 1
C17_Witness ==
    /\ call.decor_id = 1 /\ call.outcome = "raised" /\ focus_id = PyInt(1)
    /\ server.get[2].kind = "obj" /\ server.get[2].obj.Category # FetchedFocus.Category
    /\ Len(rows) > 0 /\ \A i \in 1..Len(rows) : rows[i].DecorId = PyInt(2)
    /\ Cardinality(PeerRequests) = 2
    /\ \A i \in PeerRequests : call.requests[i].category = FetchedFocus.Category.s

\* the fields normalization and enrichment have no business with
OpaqueKeys == {"Region", "PhotoUrl", "Theme", "Category"}

\* the peer records the load of this step fetched: the payload of the prices
\* request, or the detail records of the fallback path
FetchedPeers ==
    IF Len(call'.requests) = 2 THEN
        {Replies(server).prices.items[i] : i \in 1..Len(Replies(server).prices.items)}
    ELSE {GetReply(Replies(server), call'.requests[i].id).obj :
            i \in {j \in 4..Len(call'.requests) :
                     GetReply(Replies(server), call'.requests[j].id).kind = "obj"}}

\* C20: every row of rows() has, in each field other than id, name, Available
\* and the prices (Region, PhotoUrl, Theme, Category), the value of the fetched
\* peer record it was made from, on the prices path and on the fallback path.
C20_OpaqueFieldsPassThrough ==
    [][(LoadStep /\ PeerFetched /\ call'.outcome = "returned") =>
          \A i \in 1..Len(_items') :
              \E p \in FetchedPeers :
                  /\ IntOf(RowId(p)).val = IntOf(RowId(_items'[i])).val
                  /\ \A k \in OpaqueKeys : Get(_items'[i], k) = Get(p, k)]_vars

\* C23: after a successful load every item of rows() has the Category of the
\* focus item, whether the peers came from /DB/decors/prices or, on the
\* fallback path, from /DB/decors/list.
C23_RowsShareFocusCategory ==
    call.outcome = "returned" =>
        \A i \in 1..Len(rows) :
            Get(rows[i], "Category") = Get(focus_item.obj, "Category")

\* render_chart, the loop of lines 247-260: the index of the bar drawn as the
\* selected one, 0 when there is none (the last row whose int(DecorId)
\* equals int(focus_id) wins)
FocusIndex(items, fid) ==
    LET hits == {i \in 1..Len(items) :
                    /\ ~IsNone(fid)
                    /\ IntOf(GetDefault(items[i], "DecorId", PyInt(-1))).val = IntOf(fid).val}
    IN IF hits = {} THEN 0 ELSE CHOOSE i \in hits : \A j \in hits : j <= i

\* C26: after every successful load exactly one item of rows() has DecorId
\* equal to focus_id, so that render_chart draws one bar as the selected one.
C26_FocusAmongRows ==
    call.outcome = "returned" =>
        /\ Cardinality({i \in 1..Len(rows) : Get(rows[i], "DecorId") = focus_id}) = 1
        /\ FocusIndex(rows, focus_id) # 0

\* C27: load is all-or-nothing: a load that raises leaves focus_id,
\* focus_item, category and rows() exactly as they were before the call.
C27_LoadAllOrNothing ==
    [][(LoadStep /\ call'.outcome = "raised") =>
          UNCHANGED <<_items, focus_id, focus_item, category>>]_vars

\* C25: the chart shows items sorted by the price it displays: for the rows()
\* of any successful load the bar values the view computes with
\* _calc_midprice are non-decreasing in row order, whatever MidPrice the peer
\* payload carried.
BarHalves(item) == _calc_midprice(item).val.v

C25_BarsNonDecreasing ==
    call.outcome = "returned" =>
        \A i \in 1..Len(rows) : \A j \in 1..Len(rows) :
            (/\ i < j
             /\ _calc_midprice(rows[i]).ok
             /\ _calc_midprice(rows[j]).ok) => BarHalves(rows[i]) <= BarHalves(rows[j])

\* ============================================================ MainShell
\* the history never grows past MaxHistory entries here
MaxHistory == 4

\* the pages _load_microfrontends registers, each with a button in the side bar
NavPages == {"halls", "services", "decors", "ai", "profile"}
\* pages registered when a card is opened
DetailPages == {"decor:1"}
PageNames == NavPages \cup DetailPages

\* lines 130-132, before _build_ui
EmptyShell ==
    [made |-> TRUE, _history |-> <<>>, _hist_index |-> -1, _center_pages |-> {},
     current |-> "", back_disabled |-> FALSE, fwd_disabled |-> FALSE, checked |-> ""]

_update_nav_buttons(sh) ==
    [sh EXCEPT !.back_disabled = sh._hist_index <= 0,
               !.fwd_disabled = sh._hist_index >= Len(sh._history) - 1]

\* QStackedWidget.addWidget shows the widget when it is the first one
_register_center_page(sh, name) ==
    [sh EXCEPT !._center_pages = @ \cup {name},
               !.current = IF sh._center_pages = {} THEN name ELSE @]

\* the side-bar buttons after "btn.setChecked(key == name)" for each of them
Checked(name) == IF name \in NavPages THEN name ELSE ""

\* navigate with line 380-381 left out: the entries after the index stay
navigate_no_truncate(sh, name) ==
    IF name \notin sh._center_pages THEN sh
    ELSE
    LET shown == [sh EXCEPT !.current = name]
        grown ==
            IF sh._hist_index = -1 \/ sh._history[sh._hist_index + 1] # name
            THEN [shown EXCEPT !._history = Append(sh._history, name),
                               !._hist_index = @ + 1]
            ELSE shown
    IN [_update_nav_buttons(grown) EXCEPT !.checked = Checked(name)]

navigate(sh, name) ==
    IF name \notin sh._center_pages THEN sh
    ELSE
    LET shown == [sh EXCEPT !.current = name]
        kept == IF sh._hist_index < Len(sh._history) - 1
                THEN SubSeq(sh._history, 1, sh._hist_index + 1)
                ELSE sh._history
        grown ==
            IF sh._hist_index = -1 \/ sh._history[sh._hist_index + 1] # name
            THEN [shown EXCEPT !._history = Append(kept, name),
                               !._hist_index = @ + 1]
            ELSE shown
    IN [_update_nav_buttons(grown) EXCEPT !.checked = Checked(name)]

go_back(sh) ==
    IF sh._hist_index > 0
    THEN LET name == sh._history[sh._hist_index]
         IN [_update_nav_buttons([sh EXCEPT !._hist_index = @ - 1, !.current = name])
                EXCEPT !.checked = Checked(name)]
    ELSE sh

go_forward(sh) ==
    IF sh._hist_index < Len(sh._history) - 1
    THEN LET name == sh._history[sh._hist_index + 2]
         IN [_update_nav_buttons([sh EXCEPT !._hist_index = @ + 1, !.current = name])
                EXCEPT !.checked = Checked(name)]
    ELSE sh

open_decor_details(sh, page_name) ==
    IF page_name \in sh._center_pages THEN navigate(sh, page_name)
    ELSE navigate(_register_center_page(sh, page_name), page_name)

\* __init__: _build_ui, _load_microfrontends, navigate("decors")
MainShell__init__ ==
    LET built == _update_nav_buttons(EmptyShell)
        loaded ==
            _register_center_page(_register_center_page(_register_center_page(
                _register_center_page(_register_center_page(built, "halls"),
                    "services"), "decors"), "ai"), "profile")
    IN navigate(loaded, "decors")

OtherIdle ==
    /\ MidIdle
    /\ RankIdle
    /\ NormIdle
    /\ ModelIdle
OtherVars == <<MidVars, RankVars, NormVars, ModelVars>>

InitShell ==
    /\ shell = MainShell__init__
    /\ threads = <<>> /\ loader = NoObject /\ login = NoObject
    /\ OtherIdle

Navigate ==
    /\ \E name \in PageNames :
          /\ Len(navigate(shell, name)._history) <= MaxHistory
          /\ shell' = navigate(shell, name)
    /\ UNCHANGED <<threads, loader, login, OtherVars>>

OpenDecorDetails ==
    /\ \E name \in DetailPages :
          /\ Len(open_decor_details(shell, name)._history) <= MaxHistory
          /\ shell' = open_decor_details(shell, name)
    /\ UNCHANGED <<threads, loader, login, OtherVars>>

GoBack ==
    /\ shell' = go_back(shell)
    /\ UNCHANGED <<threads, loader, login, OtherVars>>

GoForward ==
    /\ shell' = go_forward(shell)
    /\ UNCHANGED <<threads, loader, login, OtherVars>>

NextShell == Navigate \/ OpenDecorDetails \/ GoBack \/ GoForward

SpecShell == InitShell /\ [][NextShell]_vars

\* C30: after any sequence of navigate, go_back and go_forward calls
\* following the first successful navigate, 0 <= _hist_index < len(_history),
\* the page shown in the center stack is _history[_hist_index], no two
\* consecutive history entries are equal, and the back / forward buttons are
\* enabled exactly when an earlier / later history entry exists.
C30_HistoryConsistent ==
    /\ 0 <= shell._hist_index
    /\ shell._hist_index < Len(shell._history)
    /\ shell.current = shell._history[shell._hist_index + 1]
    /\ \A k \in 1..(Len(shell._history) - 1) : shell._history[k] # shell._history[k + 1]
    /\ ~shell.back_disabled <=> shell._hist_index > 0
    /\ ~shell.fwd_disabled <=> shell._hist_index < Len(shell._history) - 1

\* in the middle of a history of three pages, the last of them a page that
\* was registered on the way
C30_Witness ==
    /\ Len(shell._history) = 3
    /\ shell._hist_index = 1
    /\ shell._history[3] \in DetailPages
    /\ shell._history[2] = "profile"
    /\ ~shell.back_disabled /\ ~shell.fwd_disabled

\* ========================================================== ImageLoader
\* the image URLs views ask for, and redirect targets
Urls == {"a", "b", "c", "d"}

\* __init__: both caches empty, nothing requested; replies holds the requests
\* handed to the network whose finished signal has not been handled, emitted
\* the origins pixmapReady was emitted for
NewLoader ==
    [made |-> TRUE, _mem |-> {}, _inflight |-> {}, replies |-> {}, emitted |-> {}]

\* fetch(url, origin=origin); origin "" stands for None
fetch(ld, url, origin) ==
    LET o == IF origin = "" THEN url ELSE origin
    IN IF o \in ld._mem THEN [ld EXCEPT !.emitted = @ \cup {o}]
       ELSE IF o \in ld._inflight THEN ld
       ELSE [ld EXCEPT !._inflight = @ \cup {o},
                       !.replies = @ \cup {[url |-> url, origin |-> o]}]

\* _on_finished(url, origin, reply) for the reply of request r; kind is what
\* the reply carries: a redirect status with a target, a network error, data
\* that is no image, or an image
_on_finished(ld, r, kind, target) ==
    LET got == [ld EXCEPT !.replies = @ \ {r}]
    IN CASE kind = "redirect" -> fetch(got, target, r.origin)
         [] kind = "error" -> [got EXCEPT !._inflight = @ \ {r.origin}]
         [] kind = "undecodable" -> [got EXCEPT !._inflight = @ \ {r.origin}]
         [] kind = "image" -> [got EXCEPT !._inflight = @ \ {r.origin},
                                          !._mem = @ \cup {r.origin},
                                          !.emitted = @ \cup {r.origin}]

InitLoader ==
    /\ loader = NewLoader
    /\ threads = <<>> /\ login = NoObject /\ shell = NoObject
    /\ OtherIdle

\* load_into: IMAGE_LOADER.fetch(url, origin=url)
Fetch ==
    /\ \E url \in Urls : loader' = fetch(loader, url, url)
    /\ UNCHANGED <<threads, login, shell, OtherVars>>

ReplyRedirect ==
    /\ \E r \in loader.replies :
          \E target \in Urls \ {r.url} :
              loader' = _on_finished(loader, r, "redirect", target)
    /\ UNCHANGED <<threads, login, shell, OtherVars>>

ReplyError ==
    /\ \E r \in loader.replies : loader' = _on_finished(loader, r, "error", "")
    /\ UNCHANGED <<threads, login, shell, OtherVars>>

ReplyUndecodable ==
    /\ \E r \in loader.replies : loader' = _on_finished(loader, r, "undecodable", "")
    /\ UNCHANGED <<threads, login, shell, OtherVars>>

ReplyImage ==
    /\ \E r \in loader.replies : loader' = _on_finished(loader, r, "image", "")
    /\ UNCHANGED <<threads, login, shell, OtherVars>>

NextLoader == Fetch \/ ReplyRedirect \/ ReplyError \/ ReplyUndecodable \/ ReplyImage

SpecLoader == InitLoader /\ [][NextLoader]_vars

\* C28: ImageLoader de-duplicates requests per origin without ever losing
\* one: whenever a network reply finishes (success, network error,
\* undecodable data, or a redirect), either a new request for the redirect
\* target is issued under the same origin or the origin is removed from the
\* in-flight set, so no origin stays in-flight with no request outstanding
\* and a later fetch of it is never skipped forever.
C28_InflightHasRequest ==
    \A o \in loader._inflight : \E r \in loader.replies : r.origin = o

\* ======================================================= LoginPresenter
\* the sign-in attempts of one run
MaxAttempts == 2

DEMO_USER == "Noa Hadad"
DEMO_PASSWORD == "hash:noa"

\* what can stand in the two fields of the form
UserNames == {DEMO_USER, "dan"}
Passwords == {DEMO_PASSWORD, "x"}

\* the users table: user name -> PasswordHash
Accounts == [u \in {DEMO_USER} |-> DEMO_PASSWORD]

\* AuthModel.verify(username, password)
verify(username, password) ==
    IF username \notin DOMAIN Accounts THEN FALSE
    ELSE IF Accounts[username] = "" THEN FALSE
    ELSE Accounts[username] = password

\* __init__ (lines 38-45) with an empty form; workers holds every _LoginWorker
\* made so far, queue the finished(ok) signals queued for the GUI thread,
\* emitted the auth_ok signals
NewLogin ==
    [made |-> TRUE, username |-> "", password |-> "", _pending_username |-> "",
     _thread |-> 0, workers |-> <<>>, queue |-> <<>>, emitted |-> <<>>]

\* on_sign_in: a thread that is still around is asked to quit and waited for
\* 100 ms, which does not stop a worker inside verify; a new worker gets the
\* texts of the form
on_sign_in(lg) ==
    LET worker == [username |-> lg.username, password |-> lg.password,
                   state |-> "running", ok |-> FALSE]
    IN [lg EXCEPT !._pending_username = lg.username,
                  !.workers = Append(@, worker),
                  !._thread = Len(lg.workers) + 1]

\* _LoginWorker.run of worker w: verify, then finished.emit(ok), queued
run(lg, w) ==
    [lg EXCEPT !.workers[w].ok = verify(lg.workers[w].username, lg.workers[w].password),
               !.workers[w].state = "reported",
               !.queue = Append(@, w)]

\* _on_finished(ok) for the first queued signal
LoginPresenter_on_finished(lg) ==
    LET w == Head(lg.queue)
        ok == lg.workers[w].ok
    IN [lg EXCEPT !.queue = Tail(@),
                  !.workers[w].state = "handled",
                  !.emitted = IF ok THEN Append(@, [username |-> lg._pending_username,
                                                     worker |-> w])
                              ELSE @,
                  !._pending_username = "",
                  !._thread = 0]

InitLogin ==
    /\ login = NewLogin
    /\ threads = <<>> /\ loader = NoObject /\ shell = NoObject
    /\ OtherIdle

\* the user types into the form
EditForm ==
    /\ \E u \in UserNames, p \in Passwords :
          login' = [login EXCEPT !.username = u, !.password = p]
    /\ UNCHANGED <<threads, loader, shell, OtherVars>>

\* on_use_demo
OnUseDemo ==
    /\ login' = [login EXCEPT !.username = DEMO_USER, !.password = DEMO_PASSWORD]
    /\ UNCHANGED <<threads, loader, shell, OtherVars>>

\* Enter in a field, or a click on the button
OnSignIn ==
    /\ Len(login.workers) < MaxAttempts
    /\ login' = on_sign_in(login)
    /\ UNCHANGED <<threads, loader, shell, OtherVars>>

WorkerRun ==
    /\ \E w \in 1..Len(login.workers) :
          /\ login.workers[w].state = "running"
          /\ login' = run(login, w)
    /\ UNCHANGED <<threads, loader, shell, OtherVars>>

OnFinished ==
    /\ login.queue # <<>>
    /\ login' = LoginPresenter_on_finished(login)
    /\ UNCHANGED <<threads, loader, shell, OtherVars>>

NextLogin == EditForm \/ OnUseDemo \/ OnSignIn \/ WorkerRun \/ OnFinished

SpecLogin == InitLogin /\ [][NextLogin]_vars

\* C29: LoginPresenter emits auth_ok(u) only if AuthModel.verify returned
\* True for the username u together with the password submitted with it, at
\* most once per sign-in attempt, including when on_sign_in is triggered again
\* while an earlier verification thread has not yet reported its result.
VerifiedAttempts(u) ==
    {w \in 1..Len(login.workers) :
        /\ login.workers[w].username = u
        /\ login.workers[w].state # "running"
        /\ login.workers[w].ok}

C29_AuthOkOnlyVerified ==
    \A k \in 1..Len(login.emitted) :
        LET u == login.emitted[k].username
        IN /\ VerifiedAttempts(u) # {}
           /\ Cardinality({j \in 1..Len(login.emitted) : login.emitted[j].username = u})
                 <= Cardinality(VerifiedAttempts(u))

\* ================================== two load calls on one DecorPriceModel
\* (UI/graphs) Each thread runs load(t) with the default only_available; a
\* step is one statement of load, and the threads take turns in any order.
Tids == Ids

\* load's position and locals: decor_id, focus (line 150) and data (156-158)
StartOf(t) ==
    [pc |-> "get_focus", decor_id |-> t, focus |-> EmptyDict, data |-> NullResp]

\* catalogues that hold both decors, available and priced
ConcServers ==
    {srv \in CatalogServers :
        \A i \in Ids :
            /\ srv.catalog[i] # NoRow
            /\ Get(srv.catalog[i], "Available") = PyBool(TRUE)
            /\ Get(srv.catalog[i], "PriceMedium") = PyInt(1)}

\* __init__ (lines 11-15), with both calls about to start
NewFields ==
    [items |-> <<>>, focus_id |-> None, focus_item |-> NullResp, category |-> None]

InitConc ==
    /\ impl = "graphs"
    /\ _items = NewFields.items
    /\ focus_id = NewFields.focus_id
    /\ focus_item = NewFields.focus_item
    /\ category = NewFields.category
    /\ server \in ConcServers
    /\ call = NoCall
    /\ threads = [t \in Tids |-> StartOf(t)]
    /\ loader = NoObject /\ login = NoObject /\ shell = NoObject
    /\ MidIdle
    /\ RankIdle
    /\ NormIdle

At(t, pc) == threads[t].pc = pc
Goto(t, pc) == [threads EXCEPT ![t].pc = pc]
Rest == <<impl, server, call, loader, login, shell, MidVars, RankVars, NormVars>>

\* line 150: focus = self._get_focus(decor_id)
ConcGetFocus(t) ==
    /\ At(t, "get_focus")
    /\ LET f == _get_focus(Replies(server), threads[t].decor_id)
       IN threads' = IF f.ok
                     THEN [threads EXCEPT ![t].pc = "focus_item", ![t].focus = f.row]
                     ELSE Goto(t, "raised")
    /\ UNCHANGED <<_items, focus_id, focus_item, category, Rest>>

\* line 151: self.focus_item = self._normalize_item(focus)
ConcSetFocusItem(t) ==
    /\ At(t, "focus_item")
    /\ focus_item' = ObjResp(_normalize_item(threads[t].focus))
    /\ threads' = Goto(t, "focus_id")
    /\ UNCHANGED <<_items, focus_id, category, Rest>>

\* line 152: self.focus_id = int(self.focus_item.get("DecorId"))
ConcSetFocusId(t) ==
    /\ At(t, "focus_id")
    /\ LET fid == IntOf(Get(focus_item.obj, "DecorId"))
       IN IF fid.ok
          THEN focus_id' = fid.val /\ threads' = Goto(t, "category")
          ELSE focus_id' = focus_id /\ threads' = Goto(t, "raised")
    /\ UNCHANGED <<_items, focus_item, category, Rest>>

\* line 153: self.category = self.focus_item.get("Category")
ConcSetCategory(t) ==
    /\ At(t, "category")
    /\ category' = Get(focus_item.obj, "Category")
    /\ threads' = Goto(t, "prices")
    /\ UNCHANGED <<_items, focus_id, focus_item, Rest>>

\* line 156: data = self._try_prices_endpoint(self.category)
ConcTryPrices(t) ==
    /\ At(t, "prices")
    /\ LET data == _try_prices_endpoint(Replies(server), category)
       IN threads' = IF data.kind = "list"
                     THEN [threads EXCEPT ![t].pc = "postprocess", ![t].data = data]
                     ELSE Goto(t, "fallback")
    /\ UNCHANGED <<_items, focus_id, focus_item, category, Rest>>

\* line 158: data = self._fallback_fetch_and_enrich(self.category)
ConcFallback(t) ==
    /\ At(t, "fallback")
    /\ LET fb == _fallback_fetch_and_enrich_graphs(Replies(server), category)
       IN threads' = IF fb.error = ""
                     THEN [threads EXCEPT ![t].pc = "postprocess", ![t].data = fb.full]
                     ELSE Goto(t, "raised")
    /\ UNCHANGED <<_items, focus_id, focus_item, category, Rest>>

\* line 161: self._items = self._postprocess_list(data, only_available)
ConcStore(t) ==
    /\ At(t, "postprocess")
    /\ LET post == PostprocessData(threads[t].data, TRUE)
       IN IF post.ok
          THEN _items' = post.rows /\ threads' = Goto(t, "returned")
          ELSE _items' = _items /\ threads' = Goto(t, "raised")
    /\ UNCHANGED <<focus_id, focus_item, category, Rest>>

\* the prices endpoint starts or stops failing while the calls run
ConcServerToggle ==
    /\ \E t \in Tids : threads[t].pc \notin {"returned", "raised"}
    /\ ServerToggle

NextConc ==
    \/ \E t \in Tids :
          \/ ConcGetFocus(t)
          \/ ConcSetFocusItem(t)
          \/ ConcSetFocusId(t)
          \/ ConcSetCategory(t)
          \/ ConcTryPrices(t)
          \/ ConcFallback(t)
          \/ ConcStore(t)
    \/ ConcServerToggle

SpecConc == InitConc /\ [][NextConc]_vars

\* C22: the core holds no shared mutable state between invocations, so it is
\* safe to call concurrently: when two load calls for different focus ids
\* interleave on one DecorPriceModel, the resulting focus_id, focus_item,
\* category and rows() all come from one and the same call.
BothReturned == \A t \in Tids : threads[t].pc = "returned"

AloneResult(t) == load_graphs(NewFields, Replies(server), t, TRUE)

C22_FieldsFromOneCall ==
    (BothReturned /\ server.down = {}) =>
        \E t \in Tids :
            /\ AloneResult(t).outcome = "returned"
            /\ Fields = AloneResult(t).st
====
